---- MODULE Spec2Model ----
(***************************************************************************)
(* Orchestration core of the multi-agent orchestrator: the bash main loop  *)
(* (review, merge, dispatch, completion check, stuck check, messages),     *)
(* the background dispatch_single_agent processes, the pooled persistent   *)
(* agents and the file-backed mailbox (outbox, inbox, agent pool,          *)
(* assignments).  Files of the status directory are the state.             *)
(***************************************************************************)
EXTENDS Integers, Sequences, FiniteSets, TLC

(* ------------------------------ bounds -------------------------------- *)

\* Background dispatch_single_agent processes alive at once.
MaxProcs == 2

\* config.sh exports MAX_PARALLEL_AGENTS=20; the model runs the same code
\* under a smaller configured limit so that the limit is reached.
MAX_PARALLEL_AGENTS == 1

\* config.sh: MAX_CONFLICT_RETRIES=2
MAX_CONFLICT_RETRIES == 2

\* Assignments ever written to assignments.json (uuid's are fresh: a counter).
MaxAssignments == 1

\* Number of times the operator interrupts (Ctrl+C) and resumes the loop.
MaxInterrupts == 1

(* ------------------------------ tasks --------------------------------- *)

\* The task ids a plan may use, in the order tasks.json lists them.
TaskIds == <<"T1", "T2">>

\* The plans the PM may have written: T2 depends on T1, or two independent tasks.
TaskGraphs ==
  { [T1 |-> {}, T2 |-> {"T1"}],
    [T1 |-> {}, T2 |-> {}] }

\* Persistent agents the PM may spawn into the pool (spawn_agent).
PoolAgents == {"A1", "A2"}

\* The running agent's messaging server, which serves its ask_pm and notify_pm
\* calls.
Callers == {"c1"}

NoTask == "none"

\* No orchestrator_state.json has been written.
NoStateFile == "none"

\* escalate_to_user before it is called: start_time not taken, response="",
\* empty_count=0.
NoEsc == [clock |-> 0, response |-> "", empty_count |-> 0, basis |-> "none"]

VARIABLES
  depends_on,      \* tasks.json: task -> set of task ids
  taskStatus,      \* tasks.json: task -> [first, completedMark] ("status" keys)
  statusFile,      \* <task>.status: "none" | "fresh" | "old" (age > AGENT_TIMEOUT)
  completedFile,   \* <task>.completed exists
  approvedFile,    \* <task>.approved exists
  reviewFile,      \* <task>.needs_human_review exists
  conflictRetries, \* <task>.conflict_retries content, 0 = no file
  procs,           \* background dispatch_single_agent processes: task -> number at each position
  pool,            \* agent_pool.json: agent -> [status, currentTask]
  assignments,     \* assignments.json: [pending, accepted] sequences
  nextAssignId,    \* next fresh assignment id
  orch,            \* position of main_loop
  interrupts,      \* interrupts so far
  resolveSpawned,  \* resolution agents spawned per task since its last merge
  leftReady,       \* ready tasks the last dispatch pass left at the limit
  mergeAttempts,   \* git merge runs per task in steps 1 and 2 of this iteration
  agentPc,         \* pool agent process: "none" | "idle" | "waiting" | "working" | "exited" | "killed"
  agentTask,       \* task a pool agent is working on (from its accepted assignment)
  outbox,          \* outbox.json: sequence of messages
  inbox,           \* inbox.json: sequence of responses
  nextMsgId,       \* next fresh message id (crypto.randomUUID)
  msgQueue,        \* pending_messages held by process_pending_messages
  askPc,           \* ask_pm caller: "idle" | "check" | "sleep" | "answered" | "timedout"
  askMsg,          \* id of the message the caller's ask_pm sent
  askElapsed,      \* milliseconds since the caller's waitForResponse started
  askResult,       \* the inbox entry ask_pm returned
  reviewDecision,  \* pm_review_completed's decision per task, until main_loop moves on
  pmReply,         \* the last tool call the PM control server answered
  poolWrite,       \* agent_pool.json writers between their read and their write
  tmpPath,         \* inode the name <file>.tmp refers to (0: no such file)
  docPath,         \* inode the name of the mailbox document refers to
  inodeContent,    \* bytes of each inode, as a sequence of blocks
  fileWriter,      \* each writer's place in writeJsonFile and its open inode
  fileWrites,      \* calls of writeJsonFile started
  lastRead,        \* what the last read of the mailbox document returned
  docState,        \* outbox.json / inbox.json: ok, missing or malformed
  storeOp,         \* the last mailbox operation run on such a document
  boxWrite,        \* outbox.json writers between their read and their write
  esc,             \* escalate_to_user: its clock and what the user has typed
  stateFile,       \* orchestrator_state.json
  finishedAtInterrupt, \* the tasks whose agent had finished at the last interrupt
  asgWrite         \* assignments.json writers between their read and their write, and what await_assignment has returned

vars == <<depends_on, taskStatus, statusFile, completedFile, approvedFile,
          reviewFile, conflictRetries, procs, pool, assignments,
          nextAssignId, orch, interrupts, resolveSpawned, mergeAttempts, leftReady,
          agentPc, agentTask, outbox, inbox,
          nextMsgId, msgQueue, askPc, askMsg, askElapsed, askResult,
          reviewDecision, pmReply, poolWrite, tmpPath, docPath, inodeContent,
          fileWriter, fileWrites, lastRead, docState, storeOp, boxWrite,
          esc, stateFile, finishedAtInterrupt, asgWrite>>

\* The tasks of tasks.json: the plan gives each of them its depends_on.
Tasks == DOMAIN depends_on

taskVars == <<depends_on, taskStatus>>

poolVars == <<pool, assignments, nextAssignId, agentPc, agentTask>>

ghostVars == <<resolveSpawned, mergeAttempts, leftReady>>

pmVars == <<pmReply, poolWrite>>

fsVars == <<tmpPath, docPath, inodeContent, fileWriter, fileWrites, lastRead,
            docState, storeOp, boxWrite, esc, stateFile, finishedAtInterrupt, asgWrite>>

snapVars == <<stateFile, finishedAtInterrupt, asgWrite>>

docVars == <<tmpPath, docPath, inodeContent, fileWriter, fileWrites, lastRead,
             docState, storeOp, boxWrite, asgWrite>>

askVars == <<askPc, askMsg, askElapsed, askResult>>

mailVars == <<outbox, inbox, nextMsgId, msgQueue, askVars>>

markerVars == <<statusFile, completedFile, approvedFile, reviewFile,
                conflictRetries>>

(* --------------------------- classification -------------------------- *)

\* Python's json.load keeps the last of duplicate keys; mark_task_complete and
\* mark_task_failed insert the new "status" right after "id", before older
\* ones, so the value json sees is the first status ever written.
JsonStatus(t) == taskStatus[t].first

\* dispatch_agents: is_task_complete.  No code writes <task>.merged.
MergedFileExists(t) == FALSE

\* An id that names no task has no marker file.
is_task_complete(t) ==
  t \in Tasks /\ (completedFile[t] \/ approvedFile[t] \/ MergedFileExists(t))

\* A test that asks the process table instead of the marker file.
is_task_in_progress_by_process(t) == procs[t].running > 0

\* is_task_in_progress: <task>.status exists.
is_task_in_progress(t) == statusFile[t] # "none"

are_dependencies_met(t) ==
  \A d \in depends_on[t] : is_task_complete(d)

\* The task loop of dispatch_agents / get_task_status.
Classify(t) ==
  IF JsonStatus(t) \in {"completed", "failed"} THEN "complete"
  ELSE IF is_task_complete(t) THEN "complete"
  ELSE IF is_task_in_progress(t) THEN "running"
  ELSE IF ~are_dependencies_met(t) THEN "blocked"
  ELSE "ready"

\* get_task_status: the same tests, written as one if / elif chain.
get_task_status(t) ==
  IF JsonStatus(t) \in {"completed", "failed"} \/ is_task_complete(t) THEN "complete"
  ELSE IF is_task_in_progress(t) THEN "running"
  ELSE IF are_dependencies_met(t) THEN "ready"
  ELSE "blocked"

RECURSIVE SeqFilter(_, _)
SeqFilter(s, S) ==
  IF s = <<>> THEN <<>>
  ELSE IF Head(s) \in S THEN <<Head(s)>> \o SeqFilter(Tail(s), S)
  ELSE SeqFilter(Tail(s), S)

\* tasks.json, in file order.
TaskOrder == SeqFilter(TaskIds, Tasks)

ReadyTasks == {t \in Tasks : Classify(t) = "ready"}

BlockedTasks == {t \in Tasks : Classify(t) = "blocked"}

\* tasks_to_dispatch: the ready tasks, in tasks.json order.
tasks_to_dispatch == SeqFilter(TaskOrder, ReadyTasks)

\* get_pending_tasks: non-empty output iff ready + blocked > 0.
get_pending_tasks == ReadyTasks \cup BlockedTasks # {}

(* ------------------------------- Init --------------------------------- *)

NoProcs == [spawned |-> 0, cloning |-> 0, running |-> 0]

NoAgent == [status |-> "absent", currentTask |-> NoTask, caps |-> {}]

\* No decision parsed: no review pass is in progress.
NoDecision == "unreviewed"

\* The PM control server has answered no tool call yet.
NoReply ==
  [n |-> 0, tool |-> "none", agent |-> "none", task |-> NoTask, text |-> "none"]

\* The processes that rewrite agent_pool.json: the messaging server of each
\* agent, the dispatcher (assign_task_to_agent) and the PM control server.
Writers == PoolAgents \cup {"dispatcher", "pm"}

\* A writer that is not between its read and its write of the pool file.
NoWrite ==
  [op |-> "none", agent |-> "none", status |-> "none", task |-> NoTask,
   caps |-> {}, snap |-> [a \in PoolAgents |-> NoAgent]]

\* A writer that is not between its read and its write of assignments.json.
NoAsgWrite ==
  [op |-> "none", agent |-> "none", task |-> NoTask, id |-> 0,
   snap |-> [pending |-> <<>>, accepted |-> <<>>]]

\* A document is a sequence of blocks.  init_messaging writes the empty
\* mailbox; each writer's document is what it built from the one it read.
InitialDoc == <<"empty">>

FileWriters == {"agent", "orchestrator", "web"}

\* The agent's outbox with its new message is longer than the orchestrator's
\* and the web API's copy with one status changed.
DocOf(w) ==
  IF w = "agent" THEN <<"agent", "agent", "agent">>
  ELSE IF w = "orchestrator" THEN <<"orchestrator", "orchestrator">>
  ELSE <<"web", "web">>

\* The processes that rewrite outbox.json: the agents' messaging servers, the
\* orchestrator and the web API.
BoxWriters == Callers \cup {"orchestrator", "web"}

\* A writer that is not between its read and its write of outbox.json.
NoBoxWrite == [op |-> "none", id |-> 0, snap |-> <<>>]

\* No mailbox operation has run yet.
\* No request body: the operation is not an HTTP request.
NoBody == [response |-> FALSE, project |-> FALSE]

NoStoreOp == [n |-> 0, op |-> "none", id |-> 0, body |-> NoBody, http |-> 0]

\* A writer outside writeJsonFile.
NoFileWrite == [pc |-> "idle", fd |-> 0]

\* State after pm_plan_project: a fresh plan (no "status" keys), no marker
\* files, no background process.
InitMarkers ==
  /\ taskStatus = [t \in Tasks |-> [first |-> "", completedMark |-> FALSE]]
  /\ statusFile = [t \in Tasks |-> "none"]
  /\ completedFile = [t \in Tasks |-> FALSE]
  /\ approvedFile = [t \in Tasks |-> FALSE]
  /\ reviewFile = [t \in Tasks |-> FALSE]
  /\ conflictRetries = [t \in Tasks |-> 0]
  /\ procs = [t \in Tasks |-> NoProcs]
  /\ resolveSpawned = [t \in Tasks |-> 0]
  /\ leftReady = {}
  /\ mergeAttempts = [t \in Tasks |-> 0]
  /\ reviewDecision = [t \in Tasks |-> NoDecision]

InitTasks == depends_on \in TaskGraphs /\ InitMarkers

\* State after init_messaging: empty mailbox, pool and assignment documents.
InitMessaging ==
  /\ pool = [a \in PoolAgents |-> NoAgent]
  /\ assignments = [pending |-> <<>>, accepted |-> <<>>]
  /\ nextAssignId = 1
  /\ interrupts = 0
  /\ agentPc = [a \in PoolAgents |-> "none"]
  /\ agentTask = [a \in PoolAgents |-> NoTask]
  /\ outbox = <<>>
  /\ inbox = <<>>
  /\ nextMsgId = 1
  /\ msgQueue = <<>>
  /\ askPc = [c \in Callers |-> "idle"]
  /\ askMsg = [c \in Callers |-> 0]
  /\ askElapsed = [c \in Callers |-> 0]
  /\ askResult = [c \in Callers |-> [replyTo |-> 0, from |-> "none"]]
  /\ pmReply = NoReply
  /\ poolWrite = [n |-> 0, by |-> [w \in Writers |-> NoWrite]]
  /\ tmpPath = 0
  /\ docPath = 1
  /\ inodeContent = <<InitialDoc>>
  /\ fileWriter = [w \in FileWriters |-> NoFileWrite]
  /\ fileWrites = 0
  /\ lastRead = InitialDoc
  /\ docState = [outbox |-> "ok", inbox |-> "ok"]
  /\ storeOp = NoStoreOp
  /\ boxWrite = [w \in BoxWriters |-> NoBoxWrite]
  /\ esc = NoEsc
  /\ stateFile = NoStateFile
  /\ finishedAtInterrupt = {}
  /\ asgWrite = [n |-> 0, by |-> [w \in Writers |-> NoAsgWrite], returned |-> <<>>]

\* main_loop starts at step 1.
Init == InitTasks /\ InitMessaging /\ orch = "review"

(* ---------------------- review and merge (pm.sh) ---------------------- *)

\* mark_task_complete / mark_task_failed: sed inserts a "status" key after
\* the task's "id".
MarkStatus(ts, t, value) ==
  [ts EXCEPT ![t] =
     [first |-> IF ts[t].first = "" THEN value ELSE ts[t].first,
      completedMark |-> ts[t].completedMark \/ value = "completed"]]

mark_task_complete(ts, t) == MarkStatus(ts, t, "completed")

mark_task_failed(ts, t) == MarkStatus(ts, t, "failed")

\* What the decision parse yields: the two keywords, nothing at all, or some
\* other string.
Decisions == {"APPROVE", "REJECT", "", "UNCLEAR"}

CompletedTasks == {t \in Tasks : completedFile[t]}

\* check_completed_agents: the names of the *.completed files.
check_completed_agents == CompletedTasks

RECURSIVE FoldMarks(_, _, _)
FoldMarks(ts, S, value) ==
  IF S = {} THEN ts
  ELSE LET t == CHOOSE x \in S : TRUE
       IN FoldMarks(MarkStatus(ts, t, value), S \ {t}, value)

\* A case statement that approves on APPROVE only.
ReviewVerdictStrict(decision) ==
  IF decision = "APPROVE" THEN "approve" ELSE "reject"

\* case "$decision" in APPROVE) ... REJECT) ... *) ... esac
ReviewVerdict(decision) ==
  IF decision = "APPROVE" THEN "approve"
  ELSE IF decision = "REJECT" THEN "reject"
  ELSE "approve"

\* pm_review_completed: every *.completed file gets the PM's decision, the
\* value of "decision" in the PM's answer ("" when grep finds none).
pm_review_completed(decision) ==
  /\ approvedFile' = [t \in Tasks |->
        IF completedFile[t] /\ ReviewVerdict(decision[t]) = "approve" THEN TRUE
        ELSE approvedFile[t]]
  /\ completedFile' = [t \in Tasks |-> FALSE]
  /\ taskStatus' = FoldMarks(taskStatus,
        {t \in Tasks : completedFile[t] /\ ReviewVerdict(decision[t]) = "reject"},
        "failed")
  /\ reviewDecision' = [t \in Tasks |->
        IF completedFile[t] THEN decision[t] ELSE NoDecision]

\* Step 1 of main_loop, at the start of an iteration.
StepReview ==
  /\ orch = "review"
  /\ IF check_completed_agents # {}
     THEN /\ \E decision \in [Tasks -> Decisions] :
               /\ \A t \in Tasks \ CompletedTasks : decision[t] = "UNCLEAR"
               /\ pm_review_completed(decision)
          /\ orch' = "merge1"
     ELSE /\ orch' = "merge2"
          /\ UNCHANGED <<approvedFile, completedFile, taskStatus, reviewDecision>>
  /\ mergeAttempts' = [t \in Tasks |-> 0]
  /\ UNCHANGED <<depends_on, statusFile, reviewFile, conflictRetries,
                 procs, interrupts, poolVars, resolveSpawned, leftReady, pmVars, fsVars,
                 mailVars>>

MergeOutcomes == {"clean", "conflict_resolved", "conflict_unresolved"}

ApprovedTasks == {t \in Tasks : approvedFile[t]}

Saturate(n, max) == IF n > max THEN max ELSE n

\* The retry count the conflict branch writes to <task>.conflict_retries.
NextRetries(t) == conflictRetries[t] + 1

\* The conflict branch gives up when the new count exceeds the maximum.
RetriesExceeded(t) == NextRetries(t) > MAX_CONFLICT_RETRIES

\* What merge_approved_branches does with one *.approved file.
MergeKind(t, outcome) ==
  IF outcome[t] = "clean" THEN "merged"
  ELSE IF RetriesExceeded(t) THEN "needs_human_review"
  ELSE IF outcome[t] = "conflict_resolved" THEN "resolved"
  ELSE "retry"

\* merge_approved_branches (with resolve_merge_conflict): every *.approved
\* file is tried once, in one pass over the glob.
merge_approved_branches(outcome) ==
  LET A == ApprovedTasks
      kind(t) == MergeKind(t, outcome)
  IN
  /\ approvedFile' = [t \in Tasks |->
        IF t \in A /\ kind(t) # "retry" THEN FALSE ELSE approvedFile[t]]
  /\ reviewFile' = [t \in Tasks |->
        IF t \in A /\ kind(t) = "needs_human_review" THEN TRUE ELSE reviewFile[t]]
  /\ conflictRetries' = [t \in Tasks |->
        IF t \notin A THEN conflictRetries[t]
        ELSE IF kind(t) = "retry" THEN NextRetries(t)
        ELSE 0]
  /\ taskStatus' = FoldMarks(taskStatus,
        {t \in A : kind(t) \in {"merged", "resolved"}}, "completed")
  /\ resolveSpawned' = [t \in Tasks |->
        IF t \notin A THEN resolveSpawned[t]
        ELSE IF kind(t) \in {"merged", "resolved"} THEN 0
        ELSE IF kind(t) = "retry"
             THEN Saturate(resolveSpawned[t] + 1, MAX_CONFLICT_RETRIES + 1)
        ELSE resolveSpawned[t]]
  /\ mergeAttempts' = [t \in Tasks |->
        IF t \in A THEN mergeAttempts[t] + 1 ELSE mergeAttempts[t]]

\* A loop that goes back to step 1 after a merge.
AfterMergeReviewAgain(step) == "review"

\* main_loop after a call of merge_approved_branches: the one inside step 1 is
\* followed by step 2, step 2 by step 3.
AfterMerge(step) == IF step = "merge1" THEN "merge2" ELSE "dispatch"

\* "Merge immediately after review" and step 2 of main_loop.
StepMerge ==
  /\ orch \in {"merge1", "merge2"}
  /\ \E outcome \in [Tasks -> MergeOutcomes] :
       /\ \A t \in Tasks \ ApprovedTasks : outcome[t] = "clean"
       /\ \A t \in ApprovedTasks :
            RetriesExceeded(t) => outcome[t] # "conflict_resolved"
       /\ merge_approved_branches(outcome)
  /\ orch' = AfterMerge(orch)
  /\ leftReady' = leftReady
  /\ reviewDecision' = [t \in Tasks |-> NoDecision]
  /\ UNCHANGED <<depends_on, statusFile, completedFile, procs,
                 interrupts, poolVars, pmVars, fsVars, mailVars>>

(* --------------------------- dispatch (dispatch.sh) ------------------- *)

\* tasks.json "type" of each task, passed as the preferred capability.
TaskType(t) == IF t = "T1" THEN "research" ELSE "implement"

\* agent_pool.json keeps its agents in insertion order.
PoolOrder == <<"A1", "A2">>

\* Capability lists an agent may pass to await_assignment.
CapChoices == {{}, {"implement"}}

\* get_standby_agents: the pool entries with status standby, in file order.
get_standby_agents(pl) ==
  SeqFilter(PoolOrder, {a \in PoolAgents : pl[a].status = "standby"})

\* grep -qi "$preferred_capabilities" on the agent's capability list.
CapabilityMatches(caps, preferred) == preferred \in caps

RECURSIVE FirstMatch(_, _, _)
FirstMatch(agents, pl, preferred) ==
  IF agents = <<>> THEN "none"
  ELSE IF CapabilityMatches(pl[Head(agents)].caps, preferred) THEN Head(agents)
  ELSE FirstMatch(Tail(agents), pl, preferred)

\* try_assign_to_pool: the agent chosen for the task, "none" when it returns 1.
\* dispatch_agents always passes the task type as preferred capability.
try_assign_to_pool(pl, t) == FirstMatch(get_standby_agents(pl), pl, TaskType(t))

\* assign_task_to_agent: the pool after the assignment.
AssignInPool(pl, a, t) ==
  [pl EXCEPT ![a].status = "assigned", ![a].currentTask = t]

NewAssignment(id, a, t) == [id |-> id, agentId |-> a, taskId |-> t]

\* The parallel limit of the dispatch loop: it counts what this pass started.
LimitReached(task_count, assigned_to_pool) ==
  task_count + assigned_to_pool >= MAX_PARALLEL_AGENTS

\* The while-read loop of dispatch_agents over tasks_to_dispatch.  st holds
\* the documents the loop updates and its two counters.
RECURSIVE DispatchLoop(_, _)
DispatchLoop(ready, st) ==
  IF ready = <<>> THEN st
  ELSE
    LET t == Head(ready)
        a == try_assign_to_pool(st.pool, t)
        st1 == IF a # "none"
               THEN [st EXCEPT
                       !.pool = AssignInPool(st.pool, a, t),
                       !.pending = Append(st.pending, NewAssignment(st.nextId, a, t)),
                       !.nextId = st.nextId + 1,
                       !.statusFile = [st.statusFile EXCEPT ![t] = "fresh"],
                       !.assigned_to_pool = st.assigned_to_pool + 1]
               ELSE [st EXCEPT
                       !.spawn = Append(st.spawn, t),
                       !.task_count = st.task_count + 1]
    IN IF LimitReached(st1.task_count, st1.assigned_to_pool)
       THEN st1
       ELSE DispatchLoop(Tail(ready), st1)

DispatchResult ==
  DispatchLoop(tasks_to_dispatch,
               [pool |-> pool, pending |-> assignments.pending,
                nextId |-> nextAssignId, statusFile |-> statusFile,
                spawn |-> <<>>, task_count |-> 0, assigned_to_pool |-> 0])

ProcsOf(t) == procs[t].spawned + procs[t].cloning + procs[t].running

RECURSIVE SumOver(_, _)
SumOver(f(_), S) ==
  IF S = {} THEN 0
  ELSE LET x == CHOOSE y \in S : TRUE IN f(x) + SumOver(f, S \ {x})

\* Background processes alive.
ProcsAlive == SumOver(ProcsOf, Tasks)

SeqToSet(s) == {s[i] : i \in 1..Len(s)}

\* dispatch_single_agent ... &: one background process per spawned task (a
\* ready task is listed once).
SpawnAll(spawn) ==
  [t \in Tasks |->
     IF t \in SeqToSet(spawn)
     THEN [procs[t] EXCEPT !.spawned = procs[t].spawned + 1]
     ELSE procs[t]]

\* Step 3 of main_loop: get_pending_tasks, then dispatch_agents.
StepDispatch ==
  /\ orch = "dispatch"
  /\ IF get_pending_tasks
     THEN LET r == DispatchResult IN
          /\ ProcsAlive + Len(r.spawn) <= MaxProcs
          /\ r.nextId <= MaxAssignments + 1
          /\ pool' = r.pool
          /\ assignments' = [assignments EXCEPT !.pending = r.pending]
          /\ nextAssignId' = r.nextId
          /\ statusFile' = r.statusFile
          /\ procs' = SpawnAll(r.spawn)
          /\ leftReady' = IF LimitReached(r.task_count, r.assigned_to_pool)
                          THEN {t \in ReadyTasks : t \notin SeqToSet(r.spawn)
                                                    /\ r.statusFile[t] = statusFile[t]}
                          ELSE {}
     ELSE /\ UNCHANGED <<pool, assignments, nextAssignId, statusFile, procs>>
          /\ leftReady' = {}
  /\ orch' = "complete"
  /\ mergeAttempts' = [t \in Tasks |-> 0]
  /\ UNCHANGED <<taskVars, completedFile, approvedFile, reviewFile,
                 conflictRetries, interrupts, resolveSpawned,
                 agentPc, agentTask, pmVars, fsVars, reviewDecision, mailVars>>

(* ------------------- completion and stuck checks (monitor.sh) --------- *)

\* grep -c '"id"' tasks.json: one line per task.
TotalTasks == Cardinality(Tasks)

\* grep -c '"status": "completed"' tasks.json: the lines carrying such a key.
CompletedCount == Cardinality({t \in Tasks : taskStatus[t].completedMark})

is_project_complete ==
  /\ CompletedCount >= TotalTasks
  /\ \A t \in Tasks : statusFile[t] = "none"
  /\ \A t \in Tasks : ~completedFile[t]

\* Step 4 of main_loop: PROJECT COMPLETE, pm_final_summary, break.
StepComplete ==
  /\ orch = "complete"
  /\ orch' = IF is_project_complete THEN "done" ELSE "stuck"
  /\ UNCHANGED <<taskVars, markerVars, procs, interrupts, poolVars, ghostVars, pmVars, fsVars, reviewDecision,
                 mailVars>>

\* check_stuck_agents: '$task_id' in aid.  Pool agents spawned by the PM are
\* named role-type-uuid, which holds no task id.
AidNamesTask(a, t) == FALSE

RECURSIVE PoolStatusFor(_, _)
\* The status printed by the pool lookup of check_stuck_agents: that of the
\* first pool entry naming the task or holding it as currentTask.
PoolStatusFor(agents, t) ==
  IF agents = <<>> THEN ""
  ELSE LET a == Head(agents) IN
       IF pool[a].status # "absent" /\ (AidNamesTask(a, t) \/ pool[a].currentTask = t)
       THEN pool[a].status
       ELSE PoolStatusFor(Tail(agents), t)

\* What check_stuck_agents does with <task>.status.
StuckVerdict(t) ==
  IF statusFile[t] = "none" THEN "skip"
  ELSE IF completedFile[t] THEN "remove"
  ELSE IF PoolStatusFor(PoolOrder, t) \in {"active", "standby", "assigned"} THEN "skip"
  ELSE IF statusFile[t] = "old" THEN "stuck"
  ELSE "skip"

\* Step 5 of main_loop.
StepStuck ==
  /\ orch = "stuck"
  /\ statusFile' = [t \in Tasks |->
        IF StuckVerdict(t) \in {"remove", "stuck"} THEN "none" ELSE statusFile[t]]
  /\ orch' = "messages"
  /\ UNCHANGED <<taskVars, completedFile, approvedFile, reviewFile,
                 conflictRetries, procs, interrupts, poolVars, ghostVars, pmVars, fsVars, reviewDecision, mailVars>>

\* Time passes: a marker's "started:" becomes older than AGENT_TIMEOUT.
AgeMarker(t) ==
  /\ statusFile[t] = "fresh"
  /\ statusFile' = [statusFile EXCEPT ![t] = "old"]
  /\ UNCHANGED <<taskVars, completedFile, approvedFile, reviewFile,
                 conflictRetries, procs, orch, interrupts, poolVars, ghostVars, pmVars, fsVars, reviewDecision,
                 mailVars>>

(* ----------------- background agents (dispatch_single_agent) ---------- *)

\* "Mark as in progress": the background process writes <task>.status.
ProcWriteMarker(t) ==
  /\ procs[t].spawned > 0
  /\ statusFile' = [statusFile EXCEPT ![t] = "fresh"]
  /\ procs' = [procs EXCEPT ![t].spawned = @ - 1, ![t].cloning = @ + 1]
  /\ UNCHANGED <<taskVars, completedFile, approvedFile, reviewFile,
                 conflictRetries, orch, interrupts, poolVars, ghostVars, pmVars, fsVars, reviewDecision, mailVars>>

\* git clone and the agent-type case: on failure the marker is removed and
\* the function returns 1; otherwise the agent CLI starts.
ProcStart(t, ok) ==
  /\ procs[t].cloning > 0
  /\ IF ok
     THEN /\ procs' = [procs EXCEPT ![t].cloning = @ - 1, ![t].running = @ + 1]
          /\ UNCHANGED statusFile
     ELSE /\ procs' = [procs EXCEPT ![t].cloning = @ - 1]
          /\ statusFile' = [statusFile EXCEPT ![t] = "none"]
  /\ UNCHANGED <<taskVars, completedFile, approvedFile, reviewFile,
                 conflictRetries, orch, interrupts, poolVars, ghostVars, pmVars, fsVars, reviewDecision, mailVars>>

\* The agent CLI exits: <task>.completed is written (with or without
\* changes) and <task>.status removed.
ProcExit(t) ==
  /\ procs[t].running > 0
  /\ completedFile' = [completedFile EXCEPT ![t] = TRUE]
  /\ statusFile' = [statusFile EXCEPT ![t] = "none"]
  /\ procs' = [procs EXCEPT ![t].running = @ - 1]
  /\ UNCHANGED <<taskVars, approvedFile, reviewFile, conflictRetries,
                 orch, interrupts, poolVars, ghostVars, pmVars, fsVars, reviewDecision, mailVars>>

(* ------------------------ interrupt and resume ------------------------ *)

LoopRunning == orch \notin {"done", "interrupted"}

\* save_state: orchestrator_state.json with "status": "interrupted" (and a
\* timestamp and the count line of get_task_status, which no code reads:
\* resume_project only tests that the file exists).
save_state == "interrupted"

\* Where a task stands: merged (marked completed in tasks.json), approved,
\* completed and not reviewed, or what get_task_status says.
TaskState(t) ==
  IF taskStatus[t].completedMark THEN "merged"
  ELSE IF approvedFile[t] THEN "approved"
  ELSE IF completedFile[t] THEN "completed"
  ELSE get_task_status(t)

\* shutdown_handler: save_state writes the snapshot, then exit 0.  The
\* background agents keep running.
Interrupt ==
  /\ LoopRunning
  /\ interrupts < MaxInterrupts
  /\ interrupts' = interrupts + 1
  /\ stateFile' = save_state
  /\ finishedAtInterrupt' =
       {t \in Tasks : TaskState(t) \in {"completed", "approved", "merged"}}
  /\ orch' = "interrupted"
  /\ reviewDecision' = [t \in Tasks |-> NoDecision]
  /\ UNCHANGED <<taskVars, markerVars, procs, poolVars, ghostVars, pmVars, docVars, esc,
                 mailVars>>

\* resume_project: init_project removes every *.status, then main_loop.
Resume ==
  /\ orch = "interrupted"
  /\ statusFile' = [t \in Tasks |-> "none"]
  /\ orch' = "review"
  /\ UNCHANGED <<taskVars, completedFile, approvedFile, reviewFile,
                 conflictRetries, procs, interrupts, poolVars, ghostVars, pmVars, fsVars, reviewDecision, mailVars>>

(* ------------------ pooled persistent agents (server.js) -------------- *)

\* Messages ever appended to outbox.json.
MaxMessages == 2

\* Responses ever appended to inbox.json.
MaxResponses == 2

NewMessage(id, from, to, type, status) ==
  [id |-> id, from |-> from, to |-> to, type |-> type, status |-> status]

\* spawnAgent, pool part: the entry is written as starting, with no task.
spawnAgent(pl, a) ==
  [pl EXCEPT ![a] = [status |-> "starting", currentTask |-> NoTask, caps |-> {}]]

\* spawn_agent: the PM control server starts a persistent agent and registers
\* it in the pool as starting.
PMSpawnAgent(a) ==
  /\ agentPc[a] = "none"
  /\ pool' = spawnAgent(pool, a)
  /\ agentPc' = [agentPc EXCEPT ![a] = "idle"]
  /\ UNCHANGED <<taskVars, markerVars, procs, orch, interrupts, assignments,
                 nextAssignId, agentTask, ghostVars, pmVars, fsVars, reviewDecision, mailVars>>

\* An update that sets the status and leaves currentTask as it was.
updateAgentPoolStatusOnly(pl, a, status, currentTask) ==
  IF pl[a].status = "absent" THEN pl
  ELSE [pl EXCEPT ![a].status = status]

\* updateAgentPool: only an entry that exists is changed.
updateAgentPool(pl, a, status, currentTask) ==
  IF pl[a].status = "absent" THEN pl
  ELSE [pl EXCEPT ![a].status = status, ![a].currentTask = currentTask]

\* registerAgent: the entry is (re)written as active on the server's TASK_ID.
registerAgent(pl, a, caps) ==
  [pl EXCEPT ![a] = [status |-> "active", currentTask |-> "standby", caps |-> caps]]

\* await_assignment: registerAgent, then waitForAssignment marks standby.
AwaitAssignment(a, caps) ==
  /\ agentPc[a] = "idle"
  /\ pool' = updateAgentPool(registerAgent(pool, a, caps), a, "standby", NoTask)
  /\ agentPc' = [agentPc EXCEPT ![a] = "waiting"]
  /\ UNCHANGED <<taskVars, markerVars, procs, orch, interrupts, assignments,
                 nextAssignId, agentTask, ghostVars, pmVars, fsVars, reviewDecision, mailVars>>

\* checkAssignment: the first pending assignment naming the agent.
checkAssignment(a) ==
  LET idx == {i \in 1..Len(assignments.pending) : assignments.pending[i].agentId = a}
  IN IF idx = {} THEN 0 ELSE CHOOSE i \in idx : \A j \in idx : i <= j

RemoveAt(s, i) == SubSeq(s, 1, i - 1) \o SubSeq(s, i + 1, Len(s))

\* One poll of waitForAssignment that finds an assignment: acceptAssignment
\* moves it to accepted and the pool entry becomes active on its task.
AcceptAssignment(a) ==
  /\ agentPc[a] = "waiting"
  /\ checkAssignment(a) # 0
  /\ LET i == checkAssignment(a)
         asg == assignments.pending[i]
     IN /\ assignments' = [pending |-> RemoveAt(assignments.pending, i),
                           accepted |-> Append(assignments.accepted, asg)]
        /\ pool' = updateAgentPool(pool, a, "active", asg.taskId)
        /\ agentTask' = [agentTask EXCEPT ![a] = asg.taskId]
  /\ agentPc' = [agentPc EXCEPT ![a] = "working"]
  /\ UNCHANGED <<taskVars, markerVars, procs, orch, interrupts, nextAssignId,
                 ghostVars, pmVars, fsVars, reviewDecision, mailVars>>

\* waitForAssignment returns null at its timeout: the await_assignment
\* handler marks the entry terminated and the agent exits.
AwaitTimeout(a) ==
  /\ agentPc[a] = "waiting"
  /\ pool' = updateAgentPool(pool, a, "terminated", NoTask)
  /\ agentPc' = [agentPc EXCEPT ![a] = "exited"]
  /\ UNCHANGED <<taskVars, markerVars, procs, orch, interrupts, assignments,
                 nextAssignId, agentTask, ghostVars, pmVars, fsVars, reviewDecision, mailVars>>

\* task_complete: a pending task_complete message is appended to the outbox
\* and the pool entry becomes completed on the server's TASK_ID.
TaskComplete(a) ==
  /\ agentPc[a] = "working"
  /\ Len(outbox) < MaxMessages
  /\ outbox' = Append(outbox, NewMessage(nextMsgId, a, "pm", "task_complete", "pending"))
  /\ nextMsgId' = nextMsgId + 1
  /\ pool' = updateAgentPool(pool, a, "completed", "standby")
  /\ agentPc' = [agentPc EXCEPT ![a] = "idle"]
  /\ agentTask' = [agentTask EXCEPT ![a] = NoTask]
  /\ UNCHANGED <<taskVars, markerVars, procs, orch, interrupts, assignments,
                 nextAssignId, ghostVars, pmVars, fsVars, reviewDecision, inbox, msgQueue, askVars>>

(* ------------------ PM control server (pm-control) -------------------- *)

\* Tool calls the PM control server answers (a bound on pmReply.n).
MaxPmCalls == 2

\* getAgentStatus returns null for an id that is not in the pool.
AgentKnown(pl, a) == pl[a].status # "absent"

\* An availability test that lets every known agent pass.
AgentAvailableAlways(status) == status # "absent"

\* assign_task: agent.status !== 'standby' && agent.status !== 'starting'
\* is refused.
AgentAvailable(status) == status \in {"standby", "starting"}

\* assignTask, pool part: an entry that exists becomes assigned to the task.
assignTask(pl, a, t) ==
  IF AgentKnown(pl, a)
  THEN [pl EXCEPT ![a].status = "assigned", ![a].currentTask = t]
  ELSE pl

\* A terminate that only marks entries of agents at work.
terminateAgentActive(pl, a) ==
  IF pl[a].status = "active" THEN [pl EXCEPT ![a].status = "terminated"] ELSE pl

\* terminateAgent, pool part: an entry that exists becomes terminated; its
\* currentTask stays.
terminateAgent(pl, a) ==
  IF AgentKnown(pl, a) THEN [pl EXCEPT ![a].status = "terminated"] ELSE pl

\* The agent's process is running.
AgentAlive(a) == agentPc[a] \in {"idle", "registered", "waiting", "working"}

\* process.kill(pid, 'SIGTERM') is best effort: the agents of D get the
\* signal and stop.
Kill(D) == [a \in PoolAgents |-> IF a \in D THEN "killed" ELSE agentPc[a]]

Reply(tool, a, t, text) ==
  [n |-> pmReply.n + 1, tool |-> tool, agent |-> a, task |-> t, text |-> text]

\* The assign_task tool.
PmAssignTask(a, t) ==
  /\ pmReply.n < MaxPmCalls
  /\ IF ~AgentKnown(pool, a)
     THEN /\ pmReply' = Reply("assign_task", a, t, "not found")
          /\ UNCHANGED <<pool, assignments, nextAssignId>>
     ELSE IF ~AgentAvailable(pool[a].status)
     THEN /\ pmReply' = Reply("assign_task", a, t, "not available")
          /\ UNCHANGED <<pool, assignments, nextAssignId>>
     ELSE /\ nextAssignId <= MaxAssignments
          /\ assignments' = [assignments EXCEPT
                !.pending = Append(@, NewAssignment(nextAssignId, a, t))]
          /\ nextAssignId' = nextAssignId + 1
          /\ pool' = assignTask(pool, a, t)
          /\ pmReply' = Reply("assign_task", a, t, "assigned")
  /\ UNCHANGED <<taskVars, markerVars, procs, orch, interrupts, agentPc,
                 agentTask, ghostVars, poolWrite, fsVars, reviewDecision, mailVars>>

\* The terminate_agent tool.
PmTerminateAgent(a, delivered) ==
  /\ pmReply.n < MaxPmCalls
  /\ delivered => AgentAlive(a)
  /\ agentPc' = Kill(IF delivered THEN {a} ELSE {})
  /\ pool' = terminateAgent(pool, a)
  /\ pmReply' = Reply("terminate_agent", a, NoTask, "terminated")
  /\ UNCHANGED <<taskVars, markerVars, procs, orch, interrupts, assignments,
                 nextAssignId, agentTask, ghostVars, poolWrite, fsVars, reviewDecision,
                 mailVars>>

RECURSIVE TerminateEach(_, _)
\* The loop of terminate_all over listAgents(): every entry that is not
\* terminated goes through terminateAgent.
TerminateEach(agents, pl) ==
  IF agents = <<>> THEN pl
  ELSE IF AgentKnown(pl, Head(agents)) /\ pl[Head(agents)].status # "terminated"
       THEN TerminateEach(Tail(agents), terminateAgent(pl, Head(agents)))
       ELSE TerminateEach(Tail(agents), pl)

\* The terminate_all tool, called with confirm = true.
PmTerminateAll ==
  /\ pmReply.n < MaxPmCalls
  /\ \E D \in SUBSET {a \in PoolAgents :
                        AgentAlive(a) /\ pool[a].status # "terminated"} :
       agentPc' = Kill(D)
  /\ pool' = TerminateEach(PoolOrder, pool)
  /\ pmReply' = Reply("terminate_all", "none", NoTask, "terminated")
  /\ UNCHANGED <<taskVars, markerVars, procs, orch, interrupts, assignments,
                 nextAssignId, agentTask, ghostVars, poolWrite, fsVars, reviewDecision,
                 mailVars>>

\* The PM control server with the persistent agents it spawns, assigns and
\* terminates.
NextPM ==
  \/ \E a \in PoolAgents : PMSpawnAgent(a)
  \/ \E a \in PoolAgents, t \in Tasks : PmAssignTask(a, t)
  \/ \E a \in PoolAgents, delivered \in BOOLEAN : PmTerminateAgent(a, delivered)
  \/ PmTerminateAll
  \/ \E a \in PoolAgents, caps \in CapChoices : AwaitAssignment(a, caps)
  \/ \E a \in PoolAgents : AcceptAssignment(a)
  \/ \E a \in PoolAgents : AwaitTimeout(a)
  \/ \E a \in PoolAgents : TaskComplete(a)

SpecPM == Init /\ [][NextPM]_vars

(* ------------- agent_pool.json and its concurrent writers ------------- *)

\* Read-modify-write calls on agent_pool.json that are ever started.
MaxPoolWrites == 3

\* The calls an agent's messaging server makes on its own entry:
\* registerAgent and the four call sites of updateAgentPool.
AgentCalls(a) ==
  {[op |-> "registerAgent", agent |-> a, status |-> "active",
    task |-> "standby", caps |-> c] : c \in CapChoices}
  \cup {[op |-> "updateAgentPool", agent |-> a, status |-> "standby",
          task |-> NoTask, caps |-> {}],
         [op |-> "updateAgentPool", agent |-> a, status |-> "completed",
          task |-> "standby", caps |-> {}],
         [op |-> "updateAgentPool", agent |-> a, status |-> "terminated",
          task |-> NoTask, caps |-> {}]}
  \cup {[op |-> "updateAgentPool", agent |-> a, status |-> "active",
          task |-> t, caps |-> {}] : t \in Tasks}

\* assign_task_to_agent, called by the dispatcher.
DispatcherCalls ==
  {[op |-> "assign_task_to_agent", agent |-> a, status |-> "assigned",
    task |-> t, caps |-> {}] : a \in PoolAgents, t \in Tasks}

\* The PM control server: spawnAgent, its 'exit' handler, assignTask and
\* terminateAgent.
PmCalls ==
  {[op |-> o, agent |-> a, status |-> "none", task |-> NoTask, caps |-> {}] :
      o \in {"spawnAgent", "exit", "terminateAgent"}, a \in PoolAgents}
  \cup {[op |-> "assignTask", agent |-> a, status |-> "assigned",
          task |-> t, caps |-> {}] : a \in PoolAgents, t \in Tasks}

CallsOf(w) ==
  IF w \in PoolAgents THEN AgentCalls(w)
  ELSE IF w = "dispatcher" THEN DispatcherCalls
  ELSE PmCalls

\* readJsonFile returns {} when the file cannot be parsed ("File might be
\* being written"); the Python reader of the dispatcher raises instead and
\* writes nothing.
ReadOutcomes(w) ==
  IF w # "dispatcher" /\ \E v \in Writers \ {w} : poolWrite.by[v].op # "none"
  THEN {pool, [a \in PoolAgents |-> NoAgent]}
  ELSE {pool}

\* The document a call builds from what it read.
Modified(wr) ==
  CASE wr.op = "registerAgent" -> registerAgent(wr.snap, wr.agent, wr.caps)
    [] wr.op = "updateAgentPool" ->
         updateAgentPool(wr.snap, wr.agent, wr.status, wr.task)
    [] wr.op = "assign_task_to_agent" -> AssignInPool(wr.snap, wr.agent, wr.task)
    [] wr.op = "spawnAgent" -> spawnAgent(wr.snap, wr.agent)
    [] wr.op = "assignTask" -> assignTask(wr.snap, wr.agent, wr.task)
    [] wr.op \in {"exit", "terminateAgent"} -> terminateAgent(wr.snap, wr.agent)

\* registerAgent, updateAgentPool and spawnAgent always write the file back;
\* the other calls write only when the entry is in what they read.
WritesBack(wr) ==
  \/ wr.op \in {"registerAgent", "updateAgentPool", "spawnAgent"}
  \/ AgentKnown(wr.snap, wr.agent)

\* A writer reads agent_pool.json.
DocRead(w, call, snap) ==
  /\ poolWrite.n < MaxPoolWrites
  /\ poolWrite.by[w].op = "none"
  /\ snap \in ReadOutcomes(w)
  /\ poolWrite' = [n |-> poolWrite.n + 1,
                   by |-> [poolWrite.by EXCEPT ![w] =
                             [op |-> call.op, agent |-> call.agent,
                              status |-> call.status, task |-> call.task,
                              caps |-> call.caps, snap |-> snap]]]
  /\ UNCHANGED <<taskVars, markerVars, procs, orch, interrupts, poolVars,
                 ghostVars, pmReply, fsVars, reviewDecision, mailVars>>

\* The writer renames its temporary file over agent_pool.json.
DocWrite(w) ==
  /\ poolWrite.by[w].op # "none"
  /\ pool' = IF WritesBack(poolWrite.by[w]) THEN Modified(poolWrite.by[w]) ELSE pool
  /\ poolWrite' = [poolWrite EXCEPT !.by[w] = NoWrite]
  /\ UNCHANGED <<taskVars, markerVars, procs, orch, interrupts, assignments,
                 nextAssignId, agentPc, agentTask, ghostVars, pmReply, fsVars,
                 reviewDecision, mailVars>>

\* The writers of agent_pool.json, each between a read and a write at any
\* moment.
NextDoc ==
  \/ \E w \in Writers : \E call \in CallsOf(w), snap \in ReadOutcomes(w) :
       DocRead(w, call, snap)
  \/ \E w \in Writers : DocWrite(w)

SpecDoc == Init /\ [][NextDoc]_vars

(* ------------- mailbox documents and writeJsonFile (tmp + rename) ----- *)

\* Calls of writeJsonFile (or of the Python write of messages.sh) on the
\* document that are ever started.
MaxFileWrites == 3

\* write(2) at offset 0 of a file that may already hold bytes: the buffer
\* replaces the first Len(buf) blocks and what lies behind them stays.
Overwrite(old, buf) ==
  IF Len(old) > Len(buf) THEN buf \o SubSeq(old, Len(buf) + 1, Len(old)) ELSE buf

\* open(tmp, O_WRONLY | O_CREAT | O_TRUNC): fs.writeFileSync / open(tmp, 'w').
\* An existing <file>.tmp is emptied, a missing one is created.
FsOpen(w) ==
  /\ fileWriter[w].pc = "idle"
  /\ fileWrites < MaxFileWrites
  /\ fileWrites' = fileWrites + 1
  /\ IF tmpPath = 0
     THEN /\ tmpPath' = Len(inodeContent) + 1
          /\ inodeContent' = Append(inodeContent, <<>>)
     ELSE /\ tmpPath' = tmpPath
          /\ inodeContent' = [inodeContent EXCEPT ![tmpPath] = <<>>]
  /\ fileWriter' = [fileWriter EXCEPT ![w] = [pc |-> "opened", fd |-> tmpPath']]
  /\ UNCHANGED <<docPath, lastRead, docState, storeOp, boxWrite, esc, stateFile, finishedAtInterrupt, asgWrite>>
  /\ UNCHANGED <<taskVars, markerVars, procs, orch, interrupts, poolVars,
                 ghostVars, pmVars, reviewDecision, mailVars>>

\* The writer writes its document to the inode it opened and closes it.
FsWrite(w) ==
  /\ fileWriter[w].pc = "opened"
  /\ inodeContent' = [inodeContent EXCEPT ![fileWriter[w].fd] = Overwrite(@, DocOf(w))]
  /\ fileWriter' = [fileWriter EXCEPT ![w].pc = "written"]
  /\ UNCHANGED <<tmpPath, docPath, fileWrites, lastRead, docState, storeOp, boxWrite, esc, stateFile, finishedAtInterrupt, asgWrite>>
  /\ UNCHANGED <<taskVars, markerVars, procs, orch, interrupts, poolVars,
                 ghostVars, pmVars, reviewDecision, mailVars>>

\* rename(<file>.tmp, <file>): the document's name now refers to the inode
\* of <file>.tmp, whatever it holds; with no <file>.tmp the call fails
\* (ENOENT) and writeJsonFile throws.
FsRename(w) ==
  /\ fileWriter[w].pc = "written"
  /\ IF tmpPath = 0
     THEN UNCHANGED <<tmpPath, docPath>>
     ELSE /\ docPath' = tmpPath
          /\ tmpPath' = 0
  /\ fileWriter' = [fileWriter EXCEPT ![w] = NoFileWrite]
  /\ UNCHANGED <<inodeContent, fileWrites, lastRead, docState, storeOp, boxWrite, esc, stateFile, finishedAtInterrupt, asgWrite>>
  /\ UNCHANGED <<taskVars, markerVars, procs, orch, interrupts, poolVars,
                 ghostVars, pmVars, reviewDecision, mailVars>>

\* readJsonFile / json.load: a reader reads the document.
FsRead ==
  /\ lastRead' = inodeContent[docPath]
  /\ UNCHANGED <<tmpPath, docPath, inodeContent, fileWriter, fileWrites, docState,
                 storeOp, boxWrite, esc, stateFile, finishedAtInterrupt, asgWrite>>
  /\ UNCHANGED <<taskVars, markerVars, procs, orch, interrupts, poolVars,
                 ghostVars, pmVars, reviewDecision, mailVars>>

\* The writers and readers of one mailbox document.
NextFile ==
  \/ \E w \in FileWriters : FsOpen(w)
  \/ \E w \in FileWriters : FsWrite(w)
  \/ \E w \in FileWriters : FsRename(w)
  \/ FsRead

SpecFile == Init /\ [][NextFile]_vars

(* --------------------- message routing (messages.sh) ------------------ *)

RECURSIVE PendingIds(_)
\* check_agent_messages: ids of the pending messages that are not
\* task_complete, in outbox order.
PendingIds(ob) ==
  IF ob = <<>> THEN <<>>
  ELSE IF Head(ob).status = "pending" /\ Head(ob).type # "task_complete"
       THEN <<Head(ob).id>> \o PendingIds(Tail(ob))
       ELSE PendingIds(Tail(ob))

check_agent_messages == PendingIds(outbox)

\* update_message_status: the first message with the id gets the status,
\* whatever its status was.
update_message_status(ob, id, status) ==
  LET idx == {i \in 1..Len(ob) : ob[i].id = id}
  IN IF idx = {} THEN ob
     ELSE LET i == CHOOSE k \in idx : \A j \in idx : k <= j
          IN [ob EXCEPT ![i].status = status]

NewResponse(replyTo, from) == [replyTo |-> replyTo, from |-> from]

\* send_response, inbox part: one more entry with replyTo.
send_response(ib, replyTo, from) == Append(ib, NewResponse(replyTo, from))

MessageById(ob, id) ==
  LET idx == {i \in 1..Len(ob) : ob[i].id = id}
  IN ob[CHOOSE k \in idx : \A j \in idx : k <= j]

\* Step 6 of main_loop, process_pending_messages: the pending list is read
\* once, before any message is processed.
StepMessages ==
  /\ orch = "messages"
  /\ msgQueue' = check_agent_messages
  /\ orch' = IF check_agent_messages = <<>> THEN "sleep" ELSE "processing"
  /\ UNCHANGED <<taskVars, markerVars, procs, interrupts, poolVars, ghostVars, pmVars, fsVars, reviewDecision,
                 outbox, inbox, nextMsgId, askVars>>

\* process_message, first half: "Mark message as processing".
ProcessBegin ==
  /\ orch = "processing"
  /\ outbox' = update_message_status(outbox, Head(msgQueue), "processing")
  /\ orch' = "answering"
  /\ UNCHANGED <<taskVars, markerVars, procs, interrupts, poolVars, ghostVars, pmVars, fsVars, reviewDecision,
                 inbox, nextMsgId, msgQueue, askVars>>

\* The final status process_message gives a message, by recipient and type.
RouteStatus(to, type) ==
  IF to = "pm"
  THEN IF type = "notification" THEN "delivered" ELSE "responded"
  ELSE "rejected"

\* What the PM command prints, by its effect on the script of send_response,
\* where bash pastes it into the Python source as answer = '''$answer''':
\* text that stays inside the literal, and text that ends it early or is no
\* valid literal (it holds three quotes, ends with a quote, or has a bad
\* escape), for which python3 stops with a syntax error before its try block.
PmTexts == {"plain", "breaks_literal"}

\* send_response run by bash: the script appends the entry if it compiles.
send_response_script(ib, replyTo, from, text) ==
  IF text = "breaks_literal" THEN ib ELSE send_response(ib, replyTo, from)

\* process_message, second half: notification logged, question answered by
\* handle_pm_message (directly or after escalate_to_user; both end in
\* send_response, whose last line marks the message responded), any other
\* recipient rejected.
ProcessFinish(text) ==
  /\ orch = "answering"
  /\ LET id == Head(msgQueue)
         msg == MessageById(outbox, id)
         final == RouteStatus(msg.to, msg.type)
     IN /\ IF final = "responded"
           THEN /\ Len(inbox) < MaxResponses
                /\ inbox' = send_response_script(inbox, id, "pm", text)
           ELSE UNCHANGED inbox
        /\ outbox' = update_message_status(outbox, id, final)
  /\ msgQueue' = Tail(msgQueue)
  /\ orch' = IF Tail(msgQueue) = <<>> THEN "sleep" ELSE "processing"
  /\ UNCHANGED <<taskVars, markerVars, procs, interrupts, poolVars, ghostVars, pmVars, fsVars, reviewDecision,
                 nextMsgId, askVars>>

\* sleep "$POLL_INTERVAL", then the next iteration.
StepSleep ==
  /\ orch = "sleep"
  /\ orch' = "review"
  /\ UNCHANGED <<taskVars, markerVars, procs, interrupts, poolVars, ghostVars, pmVars, fsVars, reviewDecision,
                 mailVars>>

(* ------------------------------ Spec ---------------------------------- *)

\* The scheduler with its background agents.  The PM spawns no pooled agent
\* and no agent asks the PM here, so try_assign_to_pool finds no standby
\* agent and process_pending_messages no pending message.
Next ==
  \/ StepReview
  \/ StepMerge
  \/ StepDispatch
  \/ StepComplete
  \/ StepStuck
  \/ StepMessages
  \/ StepSleep
  \/ Interrupt
  \/ Resume
  \/ \E t \in Tasks : AgeMarker(t)
  \/ \E t \in Tasks : ProcWriteMarker(t)
  \/ \E t \in Tasks, ok \in BOOLEAN : ProcStart(t, ok)
  \/ \E t \in Tasks : ProcExit(t)

Spec == Init /\ [][Next]_vars

\* The same loop in runs the operator does not interrupt.
NextRun ==
  \/ StepReview
  \/ StepMerge
  \/ StepDispatch
  \/ StepComplete
  \/ StepStuck
  \/ StepMessages
  \/ StepSleep
  \/ \E t \in Tasks : AgeMarker(t)
  \/ \E t \in Tasks : ProcWriteMarker(t)
  \/ \E t \in Tasks, ok \in BOOLEAN : ProcStart(t, ok)
  \/ \E t \in Tasks : ProcExit(t)

SpecRun == Init /\ [][NextRun]_vars

\* The persistent agent the PM keeps in the pool while the loop runs.
LoopAgents == {Head(PoolOrder)}

\* The steps of the pooled persistent agents and of the PM that spawns them.
PoolStep ==
  \/ \E a \in LoopAgents : PMSpawnAgent(a)
  \/ \E a \in PoolAgents, caps \in CapChoices : AwaitAssignment(a, caps)
  \/ \E a \in PoolAgents : AcceptAssignment(a)
  \/ \E a \in PoolAgents : AwaitTimeout(a)
  \/ \E a \in PoolAgents : TaskComplete(a)

\* A merge pass that leaves no branch in conflict.
CleanMerge ==
  /\ StepMerge
  /\ reviewFile' = reviewFile
  /\ conflictRetries' = conflictRetries

\* The scheduler with the agent pool, in runs where the operator does not
\* interrupt and no merge is left in conflict.
NextPool ==
  \/ StepReview
  \/ CleanMerge
  \/ StepDispatch
  \/ StepComplete
  \/ StepStuck
  \/ StepMessages
  \/ StepSleep
  \/ \E t \in Tasks : AgeMarker(t)
  \/ \E t \in Tasks : ProcWriteMarker(t)
  \/ \E t \in Tasks, ok \in BOOLEAN : ProcStart(t, ok)
  \/ \E t \in Tasks : ProcExit(t)
  \/ PoolStep

SpecPool == Init /\ [][NextPool]_vars

(* ------------- ask_pm / notify_pm callers (messaging server.js) ------- *)

\* waitForResponse: const pollInterval = 1000 (milliseconds).  Timers are
\* exact and a check takes no time.
pollInterval == 1000

\* ask_pm waits waitForResponse(messageId, 300000); the model runs the same
\* loop under a shorter timeout, in milliseconds.
AskTimeout == 3000

NoResponse == [replyTo |-> 0, from |-> "none"]

\* sendMessage: the outbox entry of ask_pm; it has no "type" key.
sendMessage(ob, id, from) == Append(ob, NewMessage(id, from, "pm", "", "pending"))

\* The notify_pm handler's outbox entry: type notification, no "status" key.
notifyMessage(ob, id, from) ==
  Append(ob, NewMessage(id, from, "pm", "notification", ""))

\* A find that takes the first inbox entry, whatever its replyTo.
checkResponseFirst(ib, messageId) ==
  IF ib = <<>> THEN NoResponse ELSE Head(ib)

\* checkResponse: inbox.messages.find(m => m.replyTo === messageId) || null
checkResponse(ib, messageId) ==
  LET idx == {i \in 1..Len(ib) : ib[i].replyTo = messageId}
  IN IF idx = {} THEN NoResponse
     ELSE ib[CHOOSE i \in idx : \A j \in idx : i <= j]

\* The loop condition of waitForResponse.
WaitLoopContinues(elapsed, timeoutMs) == elapsed < timeoutMs

\* ask_pm: sendMessage("pm", ...), then waitForResponse starts its clock.
AskPm(c) ==
  /\ askPc[c] = "idle"
  /\ Len(outbox) < MaxMessages
  /\ outbox' = sendMessage(outbox, nextMsgId, c)
  /\ nextMsgId' = nextMsgId + 1
  /\ askMsg' = [askMsg EXCEPT ![c] = nextMsgId]
  /\ askElapsed' = [askElapsed EXCEPT ![c] = 0]
  /\ askResult' = [askResult EXCEPT ![c] = NoResponse]
  /\ askPc' = [askPc EXCEPT ![c] = "check"]
  /\ UNCHANGED <<taskVars, markerVars, procs, orch, interrupts, poolVars,
                 ghostVars, pmVars, fsVars, reviewDecision, inbox, msgQueue>>

\* One turn of the while loop of waitForResponse: the loop test, then
\* checkResponse.  A failed test returns null (the timeout notice).
AskCheck(c) ==
  /\ askPc[c] = "check"
  /\ IF ~WaitLoopContinues(askElapsed[c], AskTimeout)
     THEN /\ askPc' = [askPc EXCEPT ![c] = "timedout"]
          /\ UNCHANGED askResult
     ELSE LET response == checkResponse(inbox, askMsg[c]) IN
          IF response # NoResponse
          THEN /\ askPc' = [askPc EXCEPT ![c] = "answered"]
               /\ askResult' = [askResult EXCEPT ![c] = response]
          ELSE /\ askPc' = [askPc EXCEPT ![c] = "sleep"]
               /\ UNCHANGED askResult
  /\ UNCHANGED <<taskVars, markerVars, procs, orch, interrupts, poolVars,
                 ghostVars, pmVars, fsVars, reviewDecision, outbox, inbox, nextMsgId, msgQueue, askMsg, askElapsed>>

\* await new Promise(resolve => setTimeout(resolve, pollInterval))
AskSleep(c) ==
  /\ askPc[c] = "sleep"
  /\ askElapsed' = [askElapsed EXCEPT ![c] = @ + pollInterval]
  /\ askPc' = [askPc EXCEPT ![c] = "check"]
  /\ UNCHANGED <<taskVars, markerVars, procs, orch, interrupts, poolVars,
                 ghostVars, pmVars, fsVars, reviewDecision, outbox, inbox, nextMsgId, msgQueue, askMsg, askResult>>

\* The ask_pm handler returns its text to the agent.
AskReturn(c) ==
  /\ askPc[c] \in {"answered", "timedout"}
  /\ askPc' = [askPc EXCEPT ![c] = "idle"]
  /\ UNCHANGED <<taskVars, markerVars, procs, orch, interrupts, poolVars,
                 ghostVars, pmVars, fsVars, reviewDecision, outbox, inbox, nextMsgId, msgQueue, askMsg,
                 askElapsed, askResult>>

\* notify_pm: non-blocking.
NotifyPm(c) ==
  /\ askPc[c] = "idle"
  /\ Len(outbox) < MaxMessages
  /\ outbox' = notifyMessage(outbox, nextMsgId, c)
  /\ nextMsgId' = nextMsgId + 1
  /\ UNCHANGED <<taskVars, markerVars, procs, orch, interrupts, poolVars,
                 ghostVars, pmVars, fsVars, reviewDecision, inbox, msgQueue, askVars>>

(* -------------------- web respond endpoint (routes/api.js) ------------ *)

\* An endpoint that appends the response and leaves the outbox as it was.
respondOutboxKept(ob, id) == ob

\* outbox.messages[messageIdx].status = 'responded', whatever it was.
respondOutbox(ob, id) ==
  LET idx == {i \in 1..Len(ob) : ob[i].id = id}
  IN IF idx = {} THEN ob
     ELSE LET i == CHOOSE k \in idx : \A j \in idx : k <= j
          IN [ob EXCEPT ![i].status = "responded"]

\* POST /messages/:id/respond for an id found in the outbox (any other id
\* gets 404 and changes nothing).
WebRespond(id) ==
  /\ \E i \in 1..Len(outbox) : outbox[i].id = id
  /\ Len(inbox) < MaxResponses
  /\ outbox' = respondOutbox(outbox, id)
  /\ inbox' = Append(inbox, NewResponse(id, "user"))
  /\ UNCHANGED <<taskVars, markerVars, procs, orch, interrupts, poolVars,
                 ghostVars, pmVars, fsVars, reviewDecision, nextMsgId, msgQueue, askVars>>

(* ------------------------------ SpecMsg ------------------------------- *)

\* A state of Spec: the first task's agent is running, the second task waits
\* for it, and main_loop has reached step 6.
InitMsg ==
  /\ InitMessaging
  /\ depends_on = [T1 |-> {}, T2 |-> {"T1"}]
  /\ taskStatus = [t \in Tasks |-> [first |-> "", completedMark |-> FALSE]]
  /\ statusFile = [T1 |-> "fresh", T2 |-> "none"]
  /\ completedFile = [t \in Tasks |-> FALSE]
  /\ approvedFile = [t \in Tasks |-> FALSE]
  /\ reviewFile = [t \in Tasks |-> FALSE]
  /\ conflictRetries = [t \in Tasks |-> 0]
  /\ procs = [T1 |-> [spawned |-> 0, cloning |-> 0, running |-> 1], T2 |-> NoProcs]
  /\ resolveSpawned = [t \in Tasks |-> 0]
  /\ leftReady = {}
  /\ mergeAttempts = [t \in Tasks |-> 0]
  /\ reviewDecision = [t \in Tasks |-> NoDecision]
  /\ orch = "messages"

\* sleep, then steps 1 to 5 of a pass that finds nothing to review, merge,
\* dispatch, announce or reclassify.
QuietPass ==
  /\ orch = "sleep"
  /\ check_completed_agents = {}
  /\ ApprovedTasks = {}
  /\ tasks_to_dispatch = <<>>
  /\ ~is_project_complete
  /\ \A t \in Tasks : StuckVerdict(t) = "skip"
  /\ orch' = "messages"
  /\ UNCHANGED <<taskVars, markerVars, procs, interrupts, poolVars, ghostVars, pmVars, fsVars, reviewDecision,
                 mailVars>>

\* The mailbox: agents' ask_pm / notify_pm calls, the orchestrator's
\* process_pending_messages and the web respond endpoint.
NextMsg ==
  \/ \E c \in Callers : AskPm(c)
  \/ \E c \in Callers : AskCheck(c)
  \/ \E c \in Callers : AskSleep(c)
  \/ \E c \in Callers : AskReturn(c)
  \/ \E c \in Callers : NotifyPm(c)
  \/ \E id \in 1..MaxMessages : WebRespond(id)
  \/ StepMessages
  \/ ProcessBegin
  \/ \E text \in PmTexts : ProcessFinish(text)
  \/ QuietPass

SpecMsg == InitMsg /\ [][NextMsg]_vars

\* Recipients other than the PM that sendMessage(to, ...) may be given.
OtherRecipients == {"user", "codex-T2"}

\* sendMessage with a recipient of the caller's choice.
sendMessageTo(ob, id, from, to) ==
  Append(ob, NewMessage(id, from, to, "", "pending"))

\* An agent's messaging server sends a message past the PM.
SendDirect(c, to) ==
  /\ askPc[c] = "idle"
  /\ Len(outbox) < MaxMessages
  /\ outbox' = sendMessageTo(outbox, nextMsgId, c, to)
  /\ nextMsgId' = nextMsgId + 1
  /\ UNCHANGED <<taskVars, markerVars, procs, orch, interrupts, poolVars,
                 ghostVars, pmVars, fsVars, reviewDecision, inbox, msgQueue, askVars>>

\* The mailbox with messages addressed to the PM and to other recipients.
NextRoute ==
  \/ NextMsg
  \/ \E c \in Callers, to \in OtherRecipients : SendDirect(c, to)

SpecRoute == InitMsg /\ [][NextRoute]_vars

\* The event loop runs a caller's timers and continuations.
SpecMsgFair ==
  SpecMsg /\ \A c \in Callers : WF_vars(AskCheck(c)) /\ WF_vars(AskSleep(c))

(* ------------- outbox.json and its concurrent writers ----------------- *)

\* The calls that rewrite outbox.json: sendMessage by an agent's server,
\* update_message_status by the orchestrator, the respond endpoint of the
\* web API.
\* The orchestrator and the web user name a message they were shown.
BoxCalls(w) ==
  LET shown == {outbox[i].id : i \in 1..Len(outbox)} IN
  IF w \in Callers THEN {[op |-> "sendMessage", id |-> nextMsgId]}
  ELSE IF w = "orchestrator"
       THEN {[op |-> "update_message_status", id |-> i] : i \in shown}
  ELSE {[op |-> "respond", id |-> i] : i \in shown}

\* The document a call builds from the outbox it read.
BoxModified(w, wr) ==
  CASE wr.op = "sendMessage" -> sendMessage(wr.snap, wr.id, w)
    [] wr.op = "update_message_status" ->
         update_message_status(wr.snap, wr.id, "processing")
    [] wr.op = "respond" -> respondOutbox(wr.snap, wr.id)

\* A writer reads outbox.json (sendMessage draws its fresh message id).
BoxRead(w, call) ==
  /\ boxWrite[w].op = "none"
  /\ call \in BoxCalls(w)
  /\ call.op = "sendMessage" => nextMsgId <= MaxMessages
  /\ boxWrite' = [boxWrite EXCEPT ![w] =
                    [op |-> call.op, id |-> call.id, snap |-> outbox]]
  /\ nextMsgId' = IF call.op = "sendMessage" THEN nextMsgId + 1 ELSE nextMsgId
  /\ UNCHANGED <<tmpPath, docPath, inodeContent, fileWriter, fileWrites, lastRead,
                 docState, storeOp, esc, stateFile, finishedAtInterrupt, asgWrite>>
  /\ UNCHANGED <<taskVars, markerVars, procs, orch, interrupts, poolVars, ghostVars,
                 pmVars, reviewDecision, outbox, inbox, msgQueue, askVars>>

\* The writer renames its temporary file over outbox.json.  The respond
\* endpoint writes only when it found the id (404 otherwise).
BoxWrite(w) ==
  /\ boxWrite[w].op # "none"
  /\ outbox' = IF boxWrite[w].op = "respond"
                  /\ ~\E i \in 1..Len(boxWrite[w].snap) :
                         boxWrite[w].snap[i].id = boxWrite[w].id
               THEN outbox
               ELSE BoxModified(w, boxWrite[w])
  /\ boxWrite' = [boxWrite EXCEPT ![w] = NoBoxWrite]
  /\ UNCHANGED <<tmpPath, docPath, inodeContent, fileWriter, fileWrites, lastRead,
                 docState, storeOp, esc, stateFile, finishedAtInterrupt, asgWrite>>
  /\ UNCHANGED <<taskVars, markerVars, procs, orch, interrupts, poolVars, ghostVars,
                 pmVars, reviewDecision, inbox, nextMsgId, msgQueue, askVars>>

\* The writers of outbox.json, each between a read and a write at any moment.
NextBox ==
  \/ \E w \in BoxWriters, id \in 1..MaxMessages,
          op \in {"sendMessage", "update_message_status", "respond"} :
       BoxRead(w, [op |-> op, id |-> id])
  \/ \E w \in BoxWriters : BoxWrite(w)

SpecBox == InitMsg /\ [][NextBox]_vars

(* ------------------------ properties: scheduling ---------------------- *)

\* mark_task_complete is called only after a successful merge.
Merged(t) == taskStatus[t].completedMark

Failed(t) == JsonStatus(t) = "failed"

\* The agent finished, the PM has not reviewed the result yet.
CompletedUnreviewedOnly(t) ==
  completedFile[t] /\ ~approvedFile[t] /\ ~Merged(t)

\* Agents at work on a task: background agent CLIs and pooled agents.
PoolWorkingOn(t) ==
  Cardinality({a \in PoolAgents : agentPc[a] = "working" /\ agentTask[a] = t})

AgentsWorkingOn(t) == procs[t].running + PoolWorkingOn(t)

AgentsRunning == SumOver(AgentsWorkingOn, Tasks)

\* C1: when the dispatch pass classifies the tasks, no task is ready (and so
\* none is dispatched) while one of its dependencies has only the
\* completed-unreviewed marker.
C1_DepsApprovedOrMerged ==
  orch = "dispatch" =>
    \A t \in ReadyTasks : \A d \in depends_on[t] : ~CompletedUnreviewedOnly(d)

\* C2: once every dependency of a task that has not started is merged
\* (approval marker removed, marked completed in tasks.json), the dispatch
\* pass classifies the task ready.
C2_ReadyOnceDepsMerged ==
  \A t \in Tasks :
    ( /\ orch = "dispatch"
      /\ depends_on[t] # {}
      /\ \A d \in depends_on[t] : Merged(d) /\ ~approvedFile[d] /\ ~completedFile[d]
      /\ Classify(t) \notin {"complete", "running"} )
    => Classify(t) = "ready"

\* C3: a task never has two agents working on it at the same time.
C3_SingleAgentPerTask ==
  \A t \in Tasks : AgentsWorkingOn(t) <= 1

\* C4: the number of agents running at the same time never exceeds
\* MAX_PARALLEL_AGENTS.
C4_ParallelLimit ==
  AgentsRunning <= MAX_PARALLEL_AGENTS

\* C5: for every task, the resolution agents spawned since its last
\* successful merge and the persisted retry counter never exceed
\* MAX_CONFLICT_RETRIES.
C5_RetryBound ==
  \A t \in Tasks :
    /\ resolveSpawned[t] <= MAX_CONFLICT_RETRIES
    /\ conflictRetries[t] <= MAX_CONFLICT_RETRIES

\* C6: needs_human_review is absorbing: a task marked needs_human_review is
\* not classified ready by a dispatch pass, and no step dispatches it,
\* approves it, merges it, gives it another resolution attempt or marks it
\* needs_human_review again.
C6_ReviewAbsorbing ==
  [][\A t \in Tasks :
       reviewFile[t] =>
         /\ orch = "dispatch" => t \notin ReadyTasks
         /\ procs'[t].spawned <= procs[t].spawned
         /\ statusFile[t] = "none" => statusFile'[t] = "none"
         /\ approvedFile'[t] = approvedFile[t]
         /\ Merged(t)' = Merged(t)
         /\ resolveSpawned'[t] <= resolveSpawned[t]
         /\ reviewFile'[t]]_vars

\* Every task is merged, failed or needs_human_review and nothing is in
\* flight: no agent process, no marker left to review or merge.
AllSettled ==
  /\ \A t \in Tasks : Merged(t) \/ Failed(t) \/ reviewFile[t]
  /\ ProcsAlive = 0
  /\ \A t \in Tasks :
       statusFile[t] = "none" /\ ~completedFile[t] /\ ~approvedFile[t]

\* C10: the loop converges: when its completion check finds every task
\* merged, failed or needs_human_review with nothing in flight, it reports
\* the result and stops (or the operator has stopped it).
C10_Converges ==
  [][(orch = "complete" /\ AllSettled) => orch' \in {"done", "interrupted"}]_vars

(* -------------------------- properties: mailbox ----------------------- *)

\* Status changes a message may make: along pending -> processing ->
\* delivered | responded, or from pending to rejected; an entry written
\* without a status may get its first one.
StatusForward(old, new) ==
  \/ new = old
  \/ old = ""
  \/ old = "pending" /\ new \in {"processing", "delivered", "responded", "rejected"}
  \/ old = "processing" /\ new \in {"delivered", "responded"}

\* C7: every step leaves each outbox message's status where it was or moves
\* it forward; a message that left pending is never pending again, and no
\* final status changes.
C7_StatusMonotonic ==
  [][\A i \in 1..Len(outbox) :
       /\ i <= Len(outbox')
       /\ outbox'[i].id = outbox[i].id
       /\ StatusForward(outbox[i].status, outbox'[i].status)]_vars

ResponsesTo(id) == {i \in 1..Len(inbox) : inbox[i].replyTo = id}

MessagesWithId(id) == {j \in 1..Len(outbox) : outbox[j].id = id}

\* C8: each inbox response's replyTo is the id of exactly one outbox
\* message, and no outbox message has more than one response.
C8_ResponseCorrelation ==
  /\ \A i \in 1..Len(inbox) : Cardinality(MessagesWithId(inbox[i].replyTo)) = 1
  /\ \A j \in 1..Len(outbox) : Cardinality(ResponsesTo(outbox[j].id)) <= 1

AskWaiting(c) == askPc[c] \in {"check", "sleep"}

AskReturned(c) == askPc[c] \in {"answered", "timedout"}

\* What a returned or waiting ask_pm call may hold: an answer is an inbox
\* entry replying to the call's own message, and the call's clock never
\* passes the timeout plus one poll interval.
AskPmBounded ==
  \A c \in Callers :
    /\ askPc[c] = "answered" =>
         /\ askResult[c].replyTo = askMsg[c]
         /\ \E i \in 1..Len(inbox) : inbox[i] = askResult[c]
    /\ askPc[c] # "idle" => askElapsed[c] <= AskTimeout + pollInterval
    /\ askPc[c] = "timedout" => askElapsed[c] >= AskTimeout

\* C9: every ask_pm call terminates, with the answer of an inbox entry whose
\* replyTo is the id of the message it sent or with the timeout notice, no
\* later than the timeout plus one poll interval.
C9_AskPmTerminates ==
  /\ []AskPmBounded
  /\ \A c \in Callers : AskWaiting(c) ~> AskReturned(c)

\* A call has returned the timeout notice at its deadline although the inbox
\* holds a response, one that replies to another message.
C9_Witness ==
  \E c \in Callers :
    /\ askPc[c] = "timedout"
    /\ askElapsed[c] >= AskTimeout
    /\ inbox # <<>>
    /\ ResponsesTo(askMsg[c]) = {}

(* ------------------------ properties: pooled agents ------------------- *)

\* The i-th outbox entry is a task_complete report nobody has handled.
TaskCompletePending(ob, i) ==
  /\ i \in 1..Len(ob)
  /\ ob[i].type = "task_complete"
  /\ ob[i].status = "pending"

\* The pooled agent that accepted the assignment of the task has reported
\* it done.
ReportedDone(t) ==
  \E k \in 1..Len(assignments.accepted) :
    /\ assignments.accepted[k].taskId = t
    /\ \E i \in 1..Len(outbox) :
         /\ outbox[i].type = "task_complete"
         /\ outbox[i].from = assignments.accepted[k].agentId

\* C11: the orchestrator handles a pooled agent's task_complete report: the
\* message step of a loop pass leaves no task_complete message pending that
\* it found in the outbox, and the in-progress marker of a task reported
\* done is removed only by submitting the task to PM review.
C11_TaskCompleteHandled ==
  [][/\ (orch = "messages" /\ orch' = "sleep") =>
          \A i \in 1..Len(outbox) :
            TaskCompletePending(outbox, i) => ~TaskCompletePending(outbox', i)
     /\ \A t \in Tasks :
          (ReportedDone(t) /\ statusFile[t] # "none" /\ statusFile'[t] = "none")
            => completedFile'[t]]_vars

(* ------------------------- properties: review ------------------------- *)

\* C12: a review pass turns every completed task whose decision is neither
\* APPROVE nor REJECT (empty or any other string) into an approved one: the
\* completed marker is gone, the approved marker is there and tasks.json
\* gets no failed mark for it.
C12_UnclearApproved ==
  [][\A t \in Tasks :
       ( /\ orch = "review"
         /\ completedFile[t]
         /\ reviewDecision'[t] \notin {"APPROVE", "REJECT", NoDecision} )
       => /\ approvedFile'[t]
          /\ ~completedFile'[t]
          /\ taskStatus'[t] = taskStatus[t]]_vars

\* A review pass has just read an empty decision for a task and the task
\* holds the approved marker, no completed marker and no failed mark.
C12_Witness ==
  \E t \in Tasks :
    /\ orch = "merge1"
    /\ reviewDecision[t] = ""
    /\ approvedFile[t]
    /\ ~completedFile[t]
    /\ ~Failed(t)

\* C13: a REJECT removes the task's completed marker and flags the task
\* failed, and failed is terminal: a failed task is not classified ready by
\* a dispatch pass, and no step dispatches it, approves it or merges it.
C13_FailedTerminal ==
  [][\A t \in Tasks :
       /\ (orch = "review" /\ completedFile[t] /\ reviewDecision'[t] = "REJECT")
            => (~completedFile'[t] /\ Failed(t)')
       /\ Failed(t) =>
            /\ orch = "dispatch" => t \notin ReadyTasks
            /\ procs'[t].spawned <= procs[t].spawned
            /\ approvedFile'[t] => approvedFile[t]
            /\ Merged(t)' => Merged(t)]_vars

\* C14: merged is terminal: a merged task is not classified ready or running
\* by a dispatch pass, no step dispatches it, no review pass reviews it
\* again and no merge pass merges it again.
C14_MergedTerminal ==
  [][\A t \in Tasks :
       Merged(t) =>
         /\ orch = "dispatch" => Classify(t) \notin {"ready", "running"}
         /\ procs'[t].spawned <= procs[t].spawned
         /\ ~(orch = "review" /\ completedFile[t] /\ orch' = "merge1")
         /\ ~(approvedFile[t] /\ ~approvedFile'[t] /\ ~reviewFile'[t])]_vars

(* ------------------------- properties: routing ------------------------ *)

PendingFor(a) ==
  {k \in 1..Len(assignments.pending) : assignments.pending[k].agentId = a}

\* C16: once await_assignment has timed out for an agent, its pool entry is
\* terminated and no pending assignment names the agent: none is created
\* for it and none stays pending.
C16_NoAssignmentForDeadAgent ==
  \A a \in PoolAgents :
    agentPc[a] = "exited" =>
      /\ pool[a].status = "terminated"
      /\ PendingFor(a) = {}

(* ------------- missing and malformed mailbox documents ---------------- *)

\* Mailbox operations ever run on a document that may be missing or
\* malformed.
MaxStoreOps == 3

fileVars == <<tmpPath, docPath, inodeContent, fileWriter, fileWrites, lastRead,
              boxWrite, esc, stateFile, finishedAtInterrupt, asgWrite>>

\* readJsonFile (messaging server, PM control server, web API): the parsed
\* document, or the default when the file is missing or JSON.parse throws.
readJsonFile(state, messages) == IF state = "ok" THEN messages ELSE <<>>

\* send_response on the file: a missing inbox.json is taken as the default,
\* json.load of a malformed one raises into the except branch, which prints
\* the error and writes nothing.
send_response_file(state, ib, replyTo, from) ==
  IF state = "malformed" THEN [state |-> state, messages |-> ib]
  ELSE [state |-> "ok",
        messages |-> send_response(IF state = "missing" THEN <<>> ELSE ib,
                                   replyTo, from)]

\* update_message_status on the file: open / json.load of a missing or
\* malformed outbox.json raises into "except: pass".
update_message_status_file(state, ob, id, status) ==
  IF state # "ok" THEN [state |-> state, messages |-> ob]
  ELSE [state |-> "ok", messages |-> update_message_status(ob, id, status)]

StoreOp(op, id) ==
  [n |-> storeOp.n + 1, op |-> op, id |-> id, body |-> NoBody, http |-> 0]

\* A mailbox document is lost or left unparseable.
Damage(d, state) ==
  /\ docState[d] = "ok"
  /\ docState' = [docState EXCEPT ![d] = state]
  /\ IF d = "outbox" THEN outbox' = <<>> /\ inbox' = inbox
     ELSE inbox' = <<>> /\ outbox' = outbox
  /\ UNCHANGED <<taskVars, markerVars, procs, orch, interrupts, poolVars, ghostVars,
                 pmVars, fileVars, storeOp, reviewDecision, nextMsgId, msgQueue, askVars>>

\* An agent's messaging server: sendMessage("pm", ...).
StoreSendMessage(c) ==
  /\ storeOp.n < MaxStoreOps
  /\ Len(outbox) < MaxMessages
  /\ outbox' = sendMessage(readJsonFile(docState.outbox, outbox), nextMsgId, c)
  /\ docState' = [docState EXCEPT !.outbox = "ok"]
  /\ nextMsgId' = nextMsgId + 1
  /\ storeOp' = StoreOp("sendMessage", nextMsgId)
  /\ UNCHANGED <<taskVars, markerVars, procs, orch, interrupts, poolVars, ghostVars,
                 pmVars, fileVars, reviewDecision, inbox, msgQueue, askVars>>

\* The orchestrator: check_agent_messages prints the pending messages, or
\* nothing when outbox.json is missing or json.load raises.
StoreCheckMessages ==
  /\ storeOp.n < MaxStoreOps
  /\ msgQueue' = IF docState.outbox = "ok" THEN check_agent_messages ELSE <<>>
  /\ storeOp' = StoreOp("check_agent_messages", 0)
  /\ UNCHANGED <<taskVars, markerVars, procs, orch, interrupts, poolVars, ghostVars,
                 pmVars, fileVars, docState, reviewDecision, outbox, inbox, nextMsgId,
                 askVars>>

\* The orchestrator answers the first message it read: send_response, then
\* update_message_status "responded".
StoreSendResponse ==
  /\ storeOp.n < MaxStoreOps
  /\ msgQueue # <<>>
  /\ Len(inbox) < MaxResponses
  /\ LET ib == send_response_file(docState.inbox, inbox, Head(msgQueue), "pm")
         ob == update_message_status_file(docState.outbox, outbox, Head(msgQueue),
                                          "responded")
     IN /\ inbox' = ib.messages
        /\ outbox' = ob.messages
        /\ docState' = [outbox |-> ob.state, inbox |-> ib.state]
  /\ msgQueue' = Tail(msgQueue)
  /\ storeOp' = StoreOp("send_response", Head(msgQueue))
  /\ UNCHANGED <<taskVars, markerVars, procs, orch, interrupts, poolVars, ghostVars,
                 pmVars, fileVars, reviewDecision, nextMsgId, askVars>>

\* The request bodies of POST /messages/:id/respond: the response text and the
\* project name, each present or not.
Bodies == [response : BOOLEAN, project : BOOLEAN]

\* The web API: POST /messages/:id/respond answers 400 when the body lacks
\* the response or the project, 404 when the id is not in the outbox it read,
\* and else updates the outbox, appends to the inbox and answers 200.
StoreWebRespond(id, body) ==
  /\ storeOp.n < MaxStoreOps
  /\ Len(inbox) < MaxResponses
  /\ LET ob == readJsonFile(docState.outbox, outbox)
         http == IF ~body.response \/ ~body.project THEN 400
                 ELSE IF ~\E i \in 1..Len(ob) : ob[i].id = id THEN 404
                 ELSE 200
     IN /\ IF http = 200
           THEN /\ outbox' = respondOutbox(ob, id)
                /\ inbox' = Append(readJsonFile(docState.inbox, inbox),
                                   NewResponse(id, "user"))
                /\ docState' = [outbox |-> "ok", inbox |-> "ok"]
           ELSE UNCHANGED <<outbox, inbox, docState>>
        /\ storeOp' = [StoreOp("respond", id) EXCEPT !.body = body, !.http = http]
  /\ UNCHANGED <<taskVars, markerVars, procs, orch, interrupts, poolVars, ghostVars,
                 pmVars, fileVars, reviewDecision, nextMsgId, msgQueue, askVars>>

\* The PM control server: broadcastMessage rewrites inbox.json (here for a
\* pool with no active or standby agent, so nothing is appended).
StoreBroadcast ==
  /\ storeOp.n < MaxStoreOps
  /\ inbox' = readJsonFile(docState.inbox, inbox)
  /\ docState' = [docState EXCEPT !.inbox = "ok"]
  /\ storeOp' = StoreOp("broadcastMessage", 0)
  /\ UNCHANGED <<taskVars, markerVars, procs, orch, interrupts, poolVars, ghostVars,
                 pmVars, fileVars, reviewDecision, outbox, nextMsgId, msgQueue, askVars>>

\* The readers of the mailbox with documents that get lost or damaged.
NextStore ==
  \/ \E d \in {"outbox", "inbox"}, state \in {"missing", "malformed"} : Damage(d, state)
  \/ \E c \in Callers : StoreSendMessage(c)
  \/ StoreCheckMessages
  \/ StoreSendResponse
  \/ \E id \in 1..MaxMessages, body \in Bodies : StoreWebRespond(id, body)
  \/ StoreBroadcast

SpecStore == InitMsg /\ [][NextStore]_vars

(* --------------------- properties: PM control server ------------------ *)

\* The step answers a call of the tool.
Answers(tool) == pmReply' # pmReply /\ pmReply'.tool = tool

PoolStatuses(pl) == [a \in PoolAgents |-> pl[a].status]

\* C19: terminate_agent on an agent of the pool leaves its entry terminated,
\* whether the process got the signal or not; terminate_all leaves every
\* entry terminated; and terminating an agent twice leaves every agent's
\* status as terminating it once does.
C19_TerminateIdempotent ==
  [][/\ (Answers("terminate_agent") /\ AgentKnown(pool, pmReply'.agent)) =>
          /\ pool'[pmReply'.agent].status = "terminated"
          /\ pool[pmReply'.agent].status = "terminated" =>
               PoolStatuses(pool') = PoolStatuses(pool)
     /\ Answers("terminate_all") =>
          \A a \in PoolAgents : AgentKnown(pool, a) => pool'[a].status = "terminated"
     /\ \A a \in PoolAgents :
          PoolStatuses(terminateAgent(terminateAgent(pool', a), a))
            = PoolStatuses(terminateAgent(pool', a))]_vars

\* terminate_agent has been called again on an agent whose process did not
\* get the signal and is still running: its entry is terminated.
C19_Witness ==
  /\ pmReply.tool = "terminate_agent"
  /\ pmReply.n >= 2
  /\ pool[pmReply.agent].status = "terminated"
  /\ AgentAlive(pmReply.agent)
  /\ \E b \in PoolAgents \ {pmReply.agent} : pool[b].status \in {"standby", "active"}

\* C17: under any interleaving of the agents' messaging servers, the
\* dispatcher and the PM control server reading and writing agent_pool.json,
\* no entry has status standby together with a currentTask.
C17_StandbyHoldsNoTask ==
  \A a \in PoolAgents : pool[a].status = "standby" => pool[a].currentTask = NoTask

\* An entry is standby after a write that was built from a stale read put
\* it back, while another writer is still about to assign it a task.
C17_Witness ==
  /\ poolWrite.n >= 3
  /\ \E a \in PoolAgents, w \in Writers \ PoolAgents :
       /\ pool[a].status = "standby"
       /\ poolWrite.by[w].op \in {"assign_task_to_agent", "assignTask"}
       /\ poolWrite.by[w].agent = a
       /\ poolWrite.by[w].snap[a].status = "active"

\* The task's agent is a pooled agent that is active, standby or assigned.
HeldByPooledAgent(t) ==
  \E a \in PoolAgents :
    /\ pool[a].currentTask = t
    /\ pool[a].status \in {"active", "standby", "assigned"}

\* C20: a stuck check that finds a task's in-progress marker older than
\* AGENT_TIMEOUT, with no pooled agent active, standby or assigned on it,
\* removes the marker and the task (never marked in tasks.json, every
\* dependency merged) is then classified ready; the marker of a task held by
\* a pooled agent that is active, standby or assigned is left alone.
C20_StuckBecomesReady ==
  [][(orch = "stuck" /\ orch' = "messages") =>
       \A t \in Tasks :
         /\ ( /\ statusFile[t] = "old" /\ ~completedFile[t]
              /\ ~HeldByPooledAgent(t)
              /\ JsonStatus(t) = "" /\ ~approvedFile[t]
              /\ \A d \in depends_on[t] : Merged(d) )
            => /\ statusFile'[t] = "none"
               /\ Classify(t)' = "ready"
         /\ ( /\ statusFile[t] # "none" /\ ~completedFile[t]
              /\ HeldByPooledAgent(t) )
            => statusFile'[t] = statusFile[t]]_vars

(* ------------------------ properties: merge retries ------------------- *)

\* C21: the merge pass in which the automated resolution of an approved
\* task's conflict fails for the MAX_CONFLICT_RETRIES-th time leaves the
\* task in needs_human_review and no longer approved (so no further merge of
\* its branch is attempted).
C21_ReviewAfterLastResolution ==
  [][\A t \in Tasks :
       ( /\ orch \in {"merge1", "merge2"}
         /\ approvedFile[t]
         /\ conflictRetries[t] = MAX_CONFLICT_RETRIES - 1
         /\ conflictRetries'[t] = MAX_CONFLICT_RETRIES )
       => /\ reviewFile'[t]
          /\ ~approvedFile'[t]]_vars

\* C22: within one loop iteration git merge runs at most once on a task's
\* branch (and so at most one resolution is attempted): a task left approved
\* by a failed resolution waits for the next iteration.
C22_OneMergePerIteration ==
  \A t \in Tasks : mergeAttempts[t] <= 1

(* ------------------------ properties: readiness ----------------------- *)

WholeDocument(doc) ==
  doc = InitialDoc \/ \E w \in FileWriters : doc = DocOf(w)

\* C24: whatever the interleaving of the writers of a mailbox document,
\* which all go through the same <file>.tmp, every read returns the whole
\* content of one write.
C24_ReadsSeeWholeDocuments ==
  WholeDocument(lastRead)

\* C25: an operation that finds outbox.json or inbox.json missing or
\* malformed does what it does on the empty document: sendMessage and the
\* web respond endpoint work from an empty outbox, check_agent_messages
\* lists nothing, broadcastMessage writes an empty inbox, and send_response
\* leaves an inbox that holds exactly its response.
C25_BadDocumentReadAsEmpty ==
  [][storeOp'.n # storeOp.n =>
       /\ (storeOp'.op = "sendMessage" /\ docState.outbox # "ok")
            => outbox' = sendMessage(<<>>, storeOp'.id, outbox'[1].from)
       /\ (storeOp'.op = "check_agent_messages" /\ docState.outbox # "ok")
            => msgQueue' = <<>>
       /\ (storeOp'.op = "respond" /\ docState.outbox # "ok")
            => (outbox' = outbox /\ inbox' = inbox)
       /\ (storeOp'.op = "broadcastMessage" /\ docState.inbox # "ok")
            => (inbox' = <<>> /\ docState'.inbox = "ok")
       /\ (storeOp'.op = "send_response" /\ docState.inbox # "ok")
            => /\ docState'.inbox = "ok"
               /\ inbox' = send_response(<<>>, storeOp'.id, "pm")]_vars

\* C26: the mailbox is append-only: a message id that is in outbox.json or
\* inbox.json, or an assignment id that is in assignments.json, is still
\* there after every step of any writer.
C26_AppendOnly ==
  [][/\ \A i \in 1..Len(outbox) : \E j \in 1..Len(outbox') : outbox'[j].id = outbox[i].id
     /\ \A i \in 1..Len(inbox) : \E j \in 1..Len(inbox') : inbox'[j] = inbox[i]
     /\ \A i \in 1..Len(assignments.pending) \cup 1..Len(assignments.accepted) :
          LET old == assignments.pending \o assignments.accepted
              new == assignments'.pending \o assignments'.accepted
          IN i <= Len(old) => \E j \in 1..Len(new) : new[j].id = old[i].id]_vars

(* ------------------------ properties: pool binding -------------------- *)

\* C27: when a dispatch pass binds its first ready task and some agent is
\* standby, the task goes to a standby agent, one whose capabilities hold the
\* task's type if there is such an agent and any standby agent otherwise; a
\* new agent is spawned for it only when no agent is standby.
C27_StandbyAgentFirst ==
  [][(orch = "dispatch" /\ orch' = "complete" /\ tasks_to_dispatch # <<>>) =>
       LET t == Head(tasks_to_dispatch)
           standby == SeqToSet(get_standby_agents(pool))
           matching == {a \in standby : CapabilityMatches(pool[a].caps, TaskType(t))}
       IN /\ procs'[t].spawned > procs[t].spawned => standby = {}
          /\ standby # {} =>
               \E a \in standby :
                 /\ pool'[a].status = "assigned"
                 /\ pool'[a].currentTask = t
                 /\ matching # {} => a \in matching]_vars

(* ------------- plans whose dependencies can never be met -------------- *)

\* tasks.json is written by the PM and read as is: depends_on may name an id
\* that no task has, and two tasks may name each other.
BrokenTaskGraphs ==
  { [T1 |-> {}, T2 |-> {"T9"}],
    [T1 |-> {"T2"}, T2 |-> {"T1"}] }

InitPlan == depends_on \in BrokenTaskGraphs /\ InitMarkers /\ InitMessaging /\ orch = "review"

SpecPlan == InitPlan /\ [][NextRun]_vars

\* dispatch_agents, stderr: one line of counts, and "Error: ..." only when
\* reading tasks.json raises; neither names a task.
SchedulerErrors == {}

RECURSIVE DependsTransitively(_, _)
DependsTransitively(S, n) ==
  IF n = 0 THEN S
  ELSE DependsTransitively(S \cup UNION {depends_on[d] : d \in S \cap Tasks}, n - 1)

\* The ids t waits for, directly or through other tasks.
Prerequisites(t) == DependsTransitively(depends_on[t], Cardinality(Tasks))

Unmeetable(t) == t \in Prerequisites(t) \/ depends_on[t] \ Tasks # {}

\* C28: at dispatch, a task whose depends_on names an id that no task has, or
\* that lies on a dependency cycle, is reported as an error by the scheduler,
\* and is not classified ready.
C28_UnmeetableIsReported ==
  orch = "dispatch" =>
    \A t \in Tasks : Unmeetable(t) => t \in SchedulerErrors /\ Classify(t) # "ready"

(* -------------------------- escalate_to_user -------------------------- *)

\* local timeout_seconds=120
timeout_seconds == 120

\* read -t 5: the seconds one read waits for a line.
ReadTimeout == 5

\* "[USER TIMEOUT - No response provided within 120 seconds. ...]"
TimeoutPlaceholder == "[USER TIMEOUT]"

\* handle_pm_message, ACTION: ESCALATE: escalate_to_user prints the question
\* and takes start_time.
Escalate ==
  /\ orch = "answering"
  /\ LET msg == MessageById(outbox, Head(msgQueue))
     IN msg.to = "pm" /\ msg.type # "notification"
  /\ esc' = NoEsc
  /\ orch' = "escalating"
  /\ UNCHANGED <<taskVars, markerVars, procs, interrupts, poolVars, ghostVars, pmVars,
                 docVars, snapVars, reviewDecision, mailVars>>

\* One pass of the while loop that finds elapsed < timeout_seconds and whose
\* read returns a line d seconds later: an empty line counts towards the two
\* that submit, any other line is appended to the response.
EscReadLine(d, line) ==
  /\ orch = "escalating"
  /\ esc.clock < timeout_seconds
  /\ d < ReadTimeout
  /\ LET count == IF line = "" THEN esc.empty_count + 1 ELSE 0
     IN /\ esc' = [clock |-> esc.clock + d,
                   response |-> IF line = "" THEN esc.response ELSE line,
                   empty_count |-> count,
                   basis |-> IF count >= 2 THEN "answer" ELSE "none"]
        /\ orch' = IF count >= 2 THEN "finalizing" ELSE "escalating"
  /\ UNCHANGED <<taskVars, markerVars, procs, interrupts, poolVars, ghostVars, pmVars,
                 docVars, snapVars, reviewDecision, mailVars>>

\* One pass whose read gets no line in ReadTimeout seconds.
EscReadTimeout ==
  /\ orch = "escalating"
  /\ esc.clock < timeout_seconds
  /\ esc' = [esc EXCEPT !.clock = @ + ReadTimeout]
  /\ UNCHANGED <<taskVars, markerVars, procs, orch, interrupts, poolVars, ghostVars,
                 pmVars, docVars, snapVars, reviewDecision, mailVars>>

\* The pass that finds elapsed >= timeout_seconds: the response becomes the
\* placeholder, whatever had been typed.
EscTimeout ==
  /\ orch = "escalating"
  /\ esc.clock >= timeout_seconds
  /\ esc' = [esc EXCEPT !.response = TimeoutPlaceholder, !.basis = "timeout"]
  /\ orch' = "finalizing"
  /\ UNCHANGED <<taskVars, markerVars, procs, interrupts, poolVars, ghostVars, pmVars,
                 docVars, snapVars, reviewDecision, mailVars>>

\* handle_pm_message after escalate_to_user: the PM words the final response
\* from user_response, and send_response appends it and marks the message.
EscFinish ==
  /\ orch = "finalizing"
  /\ Len(inbox) < MaxResponses
  /\ inbox' = send_response(inbox, Head(msgQueue), "pm")
  /\ outbox' = update_message_status(outbox, Head(msgQueue), "responded")
  /\ msgQueue' = Tail(msgQueue)
  /\ orch' = IF Tail(msgQueue) = <<>> THEN "sleep" ELSE "processing"
  /\ UNCHANGED <<taskVars, markerVars, procs, interrupts, poolVars, ghostVars, pmVars,
                 fsVars, reviewDecision, nextMsgId, askVars>>

\* The terminal path: agents ask, the loop processes the questions, and the PM
\* answers each one itself or escalates it to the user at the terminal.
NextEsc ==
  \/ \E c \in Callers : AskPm(c)
  \/ \E c \in Callers : AskCheck(c)
  \/ \E c \in Callers : AskSleep(c)
  \/ \E c \in Callers : AskReturn(c)
  \/ StepMessages
  \/ ProcessBegin
  \/ \E text \in PmTexts : ProcessFinish(text)
  \/ Escalate
  \/ \E d \in 0..(ReadTimeout - 1), line \in {"", "text"} : EscReadLine(d, line)
  \/ EscReadTimeout
  \/ EscTimeout
  \/ EscFinish
  \/ QuietPass

SpecEsc == InitMsg /\ [][NextEsc]_vars

Responses(ib, id) == {i \in 1..Len(ib) : ib[i].replyTo = id}

\* C29: when handle_pm_message finishes an escalated question, the question
\* has exactly one response; the response is built from the user's answer when
\* the answer was submitted within timeout_seconds and from the timeout
\* placeholder otherwise; the wait ended within timeout_seconds; and the loop
\* goes on to the next message or to its sleep.
C29_EscalationAnswered ==
  [][(orch = "finalizing" /\ orch' # "finalizing") =>
       /\ Cardinality(Responses(inbox', Head(msgQueue))) = 1
       /\ esc.clock <= timeout_seconds
       /\ esc.basis = "answer" => esc.response # TimeoutPlaceholder
       /\ esc.basis = "timeout" => esc.response = TimeoutPlaceholder
       /\ orch' \in {"processing", "sleep"}]_vars

(* ------------------------- interrupt and resume ----------------------- *)

\* The dispatch pass starts an agent for t or assigns t to a pooled agent.
DispatchedNow(t) ==
  /\ orch = "dispatch"
  /\ \/ procs'[t].spawned > procs[t].spawned
     \/ \E a \in PoolAgents : pool'[a].currentTask = t /\ pool[a].currentTask # t

\* C30: the interrupt handler leaves orchestrator_state.json written when the
\* loop exits, and once the loop has been resumed no task that was completed and
\* unreviewed, approved or merged at the interrupt is dispatched again.
C30_ResumeKeepsFinishedWork ==
  [][/\ (orch # "interrupted" /\ orch' = "interrupted") =>
          stateFile' = "interrupted"
     /\ \A t \in Tasks :
          (t \in finishedAtInterrupt /\ orch # "interrupted")
          => ~DispatchedNow(t)]_vars

(* ----------------------- the respond endpoint ------------------------- *)

OutboxIds == {outbox[i].id : i \in 1..Len(outbox)}

\* C31: POST /messages/:id/respond with a response text and a project, for an
\* id in the outbox, appends one inbox entry with replyTo = id from the user
\* and sets that outbox entry to responded, changing nothing else; with an id
\* that is not in the outbox, or without the text or the project, it answers
\* an error and changes neither the outbox nor the inbox.
C31_RespondWritePath ==
  [][(storeOp'.n # storeOp.n /\ storeOp'.op = "respond") =>
       LET id == storeOp'.id
           complete == storeOp'.body.response /\ storeOp'.body.project
       IN IF complete /\ id \in OutboxIds
          THEN /\ storeOp'.http = 200
               /\ Len(inbox') = Len(inbox) + 1
               /\ SubSeq(inbox', 1, Len(inbox)) = inbox
               /\ inbox'[Len(inbox')] = [replyTo |-> id, from |-> "user"]
               /\ Len(outbox') = Len(outbox)
               /\ \A i \in 1..Len(outbox) :
                    IF outbox[i].id = id
                    THEN outbox'[i] = [outbox[i] EXCEPT !.status = "responded"]
                    ELSE outbox'[i] = outbox[i]
          ELSE /\ storeOp'.http \in {400, 404}
               /\ outbox' = outbox
               /\ inbox' = inbox]_vars

\* A respond call has been answered 200 and its response is in the inbox.
C31_Witness ==
  /\ storeOp.op = "respond"
  /\ storeOp.http = 200
  /\ \E i \in 1..Len(inbox) : inbox[i] = [replyTo |-> storeOp.id, from |-> "user"]
  /\ \E i \in 1..Len(outbox) : outbox[i].id = storeOp.id /\ outbox[i].status = "responded"

(* ------------------ the life of a pool entry (server.js) -------------- *)

\* await_assignment, first write: registerAgent.
AwaitRegister(a, caps) ==
  /\ agentPc[a] = "idle"
  /\ pool' = registerAgent(pool, a, caps)
  /\ agentPc' = [agentPc EXCEPT ![a] = "registered"]
  /\ UNCHANGED <<taskVars, markerVars, procs, orch, interrupts, assignments,
                 nextAssignId, agentTask, ghostVars, pmVars, fsVars, reviewDecision, mailVars>>

\* await_assignment, second write: waitForAssignment marks the entry standby
\* before its first poll.
AwaitStandby(a) ==
  /\ agentPc[a] = "registered"
  /\ pool' = updateAgentPool(pool, a, "standby", NoTask)
  /\ agentPc' = [agentPc EXCEPT ![a] = "waiting"]
  /\ UNCHANGED <<taskVars, markerVars, procs, orch, interrupts, assignments,
                 nextAssignId, agentTask, ghostVars, pmVars, fsVars, reviewDecision, mailVars>>

\* The PM control server and the persistent agents, with each write of
\* agent_pool.json as a step of its own.
NextLife ==
  \/ \E a \in PoolAgents : PMSpawnAgent(a)
  \/ \E a \in PoolAgents, t \in Tasks : PmAssignTask(a, t)
  \/ \E a \in PoolAgents, delivered \in BOOLEAN : PmTerminateAgent(a, delivered)
  \/ PmTerminateAll
  \/ \E a \in PoolAgents, caps \in CapChoices : AwaitRegister(a, caps)
  \/ \E a \in PoolAgents : AwaitStandby(a)
  \/ \E a \in PoolAgents : AcceptAssignment(a)
  \/ \E a \in PoolAgents : AwaitTimeout(a)
  \/ \E a \in PoolAgents : TaskComplete(a)

SpecLife == Init /\ [][NextLife]_vars

\* The steps of the persistent agent's state machine.
LifeSteps ==
  { <<"absent", "starting">>, <<"starting", "standby">>, <<"standby", "assigned">>,
    <<"assigned", "active">>, <<"active", "completed">>, <<"completed", "standby">> }

\* C32: the status of a pool entry changes only along starting -> standby ->
\* assigned -> active -> completed -> standby, or to terminated; a terminated
\* entry keeps that status.
C32_PoolStatusMachine ==
  [][\A a \in PoolAgents :
       \/ pool'[a].status = pool[a].status
       \/ <<pool[a].status, pool'[a].status>> \in LifeSteps
       \/ pool'[a].status = "terminated"]_vars

(* --------------------------- the cycle's order ------------------------ *)

\* The loop on the plan in which the second task waits for the first.
InitChain ==
  /\ depends_on = [T1 |-> {}, T2 |-> {"T1"}]
  /\ InitMarkers /\ InitMessaging /\ orch = "review"

SpecChain == InitChain /\ [][NextRun]_vars

\* One step of main_loop followed by the next: review, merge (twice after a
\* review), dispatch, completion check, stuck check, messages one by one,
\* sleep.
CycleSteps ==
  { <<"review", "merge1">>, <<"review", "merge2">>, <<"merge1", "merge2">>,
    <<"merge2", "dispatch">>, <<"dispatch", "complete">>, <<"complete", "stuck">>,
    <<"complete", "done">>, <<"stuck", "messages">>, <<"messages", "processing">>,
    <<"messages", "sleep">>, <<"processing", "answering">>,
    <<"answering", "processing">>, <<"answering", "sleep">>, <<"sleep", "review">> }

\* C33: the loop goes from each step to the next one of the fixed order
\* review, merge, dispatch, completion check, stuck check, messages, sleep; and
\* the work of a step is done in that step only: a task is approved during
\* review, marked merged during merge, and given an agent during dispatch.
C33_FixedStepOrder ==
  [][/\ orch' # orch => <<orch, orch'>> \in CycleSteps
     /\ (\E t \in Tasks : approvedFile'[t] /\ ~approvedFile[t]) => orch = "review"
     /\ (\E t \in Tasks : Merged(t)' /\ ~Merged(t)) => orch \in {"merge1", "merge2"}
     /\ (\E t \in Tasks : procs'[t].spawned > procs[t].spawned) => orch = "dispatch"]_vars

\* A cycle that reviewed, merged and dispatched has reached its sleep.
C33_Witness ==
  /\ orch = "sleep"
  /\ \E t \in Tasks : Merged(t)
  /\ \E t \in Tasks : procs[t].spawned + procs[t].cloning + procs[t].running > 0

(* ------------------------ the dispatch limit -------------------------- *)

\* What one dispatch pass starts: background agents and pool assignments.
StartedByPass ==
  SumOver(LAMBDA t : procs'[t].spawned - procs[t].spawned, Tasks)
    + (Len(assignments'.pending) - Len(assignments.pending))

\* C34: a dispatch pass starts at most MAX_PARALLEL_AGENTS agents, new
\* processes and pool assignments together; and a task that was ready in a
\* pass that stopped at the limit without dispatching it is ready again at
\* the next dispatch pass.
C34_LimitPerPass ==
  [][/\ (orch = "dispatch" /\ orch' = "complete") =>
          StartedByPass <= MAX_PARALLEL_AGENTS
     /\ \A t \in Tasks :
          (t \in leftReady /\ orch # "dispatch" /\ orch' = "dispatch")
            => Classify(t)' = "ready"]_vars

(* ------------------------ properties: notifications ------------------- *)

\* The outbox entries notify_pm wrote.
Notifications(ob) == {j \in 1..Len(ob) : ob[j].type = "notification"}

\* C35: a notification sent with notify_pm is picked up by the message pass
\* and marked delivered: the pass that reads the outbox takes every
\* notification not yet delivered into its list, and a notification the pass
\* has handled is delivered; no inbox entry ever replies to a notification.
C35_NotificationDelivered ==
  [][/\ (orch = "messages" /\ orch' # "messages") =>
          \A j \in Notifications(outbox) :
            outbox[j].status # "delivered" =>
              \E k \in 1..Len(msgQueue') : msgQueue'[k] = outbox[j].id
     /\ \A j \in Notifications(outbox') :
          \A i \in 1..Len(inbox') : inbox'[i].replyTo # outbox'[j].id]_vars

(* ------------- assignments.json and its concurrent writers ------------ *)

\* Read-modify-write calls on assignments.json that are ever started.
MaxAsgWrites == 4

\* The processes that append an assignment.
Assigners == {"dispatcher", "pm"}

\* acceptAssignment on the document it read: the pending entry with the id
\* moves to accepted; a document without it is not written back.
acceptAssignment(doc, id) ==
  LET idx == {i \in 1..Len(doc.pending) : doc.pending[i].id = id}
  IN IF idx = {} THEN doc
     ELSE LET i == CHOOSE k \in idx : \A j \in idx : k <= j
          IN [pending |-> SubSeq(doc.pending, 1, i - 1)
                            \o SubSeq(doc.pending, i + 1, Len(doc.pending)),
              accepted |-> Append(doc.accepted, doc.pending[i])]

\* assign_task_to_agent (dispatcher, for an agent get_standby_agents listed)
\* and assignTask (PM control server, for a standby or starting agent) read
\* assignments.json.
AsgAppendRead(w, a, t) ==
  /\ asgWrite.n < MaxAsgWrites
  /\ asgWrite.by[w].op = "none"
  /\ IF w = "pm" THEN AgentAvailable(pool[a].status)
     ELSE pool[a].status = "standby"
  /\ asgWrite' = [asgWrite EXCEPT
        !.n = @ + 1,
        !.by[w] = [op |-> IF w = "pm" THEN "assignTask" ELSE "assign_task_to_agent",
                   agent |-> a, task |-> t, id |-> nextAssignId,
                   snap |-> assignments]]
  /\ nextAssignId' = nextAssignId + 1
  /\ UNCHANGED <<taskVars, markerVars, procs, orch, interrupts, pool, assignments,
                 agentPc, agentTask, ghostVars, pmVars, tmpPath, docPath,
                 inodeContent, fileWriter, fileWrites, lastRead, docState, storeOp,
                 boxWrite, esc, stateFile, finishedAtInterrupt, reviewDecision,
                 mailVars>>

\* The assigner appends its assignment to what it read, renames the
\* temporary file over assignments.json and marks the pool entry assigned.
AsgAppendWrite(w) ==
  /\ w \in Assigners
  /\ asgWrite.by[w].op # "none"
  /\ LET wr == asgWrite.by[w]
     IN /\ assignments' =
             [wr.snap EXCEPT !.pending = Append(@, NewAssignment(wr.id, wr.agent, wr.task))]
        /\ pool' = assignTask(pool, wr.agent, wr.task)
  /\ asgWrite' = [asgWrite EXCEPT !.by[w] = NoAsgWrite]
  /\ UNCHANGED <<taskVars, markerVars, procs, orch, interrupts, nextAssignId,
                 agentPc, agentTask, ghostVars, pmVars, tmpPath, docPath,
                 inodeContent, fileWriter, fileWrites, lastRead, docState, storeOp,
                 boxWrite, esc, stateFile, finishedAtInterrupt, reviewDecision,
                 mailVars>>

\* One poll of waitForAssignment: checkAssignment finds a pending assignment
\* naming the agent, and acceptAssignment reads assignments.json.
AsgAcceptRead(a) ==
  /\ asgWrite.n < MaxAsgWrites
  /\ agentPc[a] = "waiting"
  /\ asgWrite.by[a].op = "none"
  /\ checkAssignment(a) # 0
  /\ LET asg == assignments.pending[checkAssignment(a)]
     IN asgWrite' = [asgWrite EXCEPT
           !.n = @ + 1,
           !.by[a] = [op |-> "acceptAssignment", agent |-> asg.agentId,
                      task |-> asg.taskId, id |-> asg.id, snap |-> assignments]]
  /\ UNCHANGED <<taskVars, markerVars, procs, orch, interrupts, poolVars,
                 ghostVars, pmVars, tmpPath, docPath,
                 inodeContent, fileWriter, fileWrites, lastRead, docState, storeOp,
                 boxWrite, esc, stateFile, finishedAtInterrupt, reviewDecision,
                 mailVars>>

\* acceptAssignment writes the document back, the pool entry becomes active
\* on the task and await_assignment returns the assignment to the agent.
AsgAcceptWrite(a) ==
  /\ a \in PoolAgents
  /\ asgWrite.by[a].op = "acceptAssignment"
  /\ LET wr == asgWrite.by[a]
     IN /\ assignments' = acceptAssignment(wr.snap, wr.id)
        /\ pool' = updateAgentPool(pool, a, "active", wr.task)
        /\ agentTask' = [agentTask EXCEPT ![a] = wr.task]
        /\ asgWrite' = [asgWrite EXCEPT
              !.by[a] = NoAsgWrite,
              !.returned = Append(@, [to |-> a, id |-> wr.id, agentId |-> wr.agent])]
  /\ agentPc' = [agentPc EXCEPT ![a] = "working"]
  /\ UNCHANGED <<taskVars, markerVars, procs, orch, interrupts, nextAssignId,
                 ghostVars, pmVars, tmpPath, docPath,
                 inodeContent, fileWriter, fileWrites, lastRead, docState, storeOp,
                 boxWrite, esc, stateFile, finishedAtInterrupt, reviewDecision,
                 mailVars>>

\* Persistent agents that await assignments, accept them and report
\* completion, while the dispatcher and the PM control server assign tasks.
NextAsg ==
  \/ \E a \in PoolAgents : PMSpawnAgent(a)
  \/ \E a \in PoolAgents, caps \in CapChoices : AwaitAssignment(a, caps)
  \/ \E w \in Assigners, a \in PoolAgents, t \in Tasks : AsgAppendRead(w, a, t)
  \/ \E w \in Assigners : AsgAppendWrite(w)
  \/ \E a \in PoolAgents : AsgAcceptRead(a)
  \/ \E a \in PoolAgents : AsgAcceptWrite(a)
  \/ \E a \in PoolAgents : TaskComplete(a)

SpecAsg == Init /\ [][NextAsg]_vars

\* C36: an assignment is handed out at most once and only to the agent it
\* names: every assignment await_assignment has returned went to the agent
\* whose id is its agentId, and no assignment was returned twice.
C36_AssignmentOnce ==
  /\ \A i \in 1..Len(asgWrite.returned) :
       asgWrite.returned[i].to = asgWrite.returned[i].agentId
  /\ \A i, j \in 1..Len(asgWrite.returned) :
       asgWrite.returned[i].id = asgWrite.returned[j].id => i = j

(* ------------------- properties: one message pass --------------------- *)

\* process_message has finished the message at the head of the list.
Processed == orch = "answering" /\ orch' # "answering"

\* C37: a run of process_pending_messages takes every pending message that
\* is no task_complete into its list; each message of the list leaves
\* process_message delivered, responded or rejected; and a question to pm
\* gets exactly one inbox response from it, whatever the PM command printed.
C37_PassSettlesMessages ==
  [][/\ (orch = "messages" /\ orch' # "messages") =>
          \A j \in 1..Len(outbox) :
            (outbox[j].status = "pending" /\ outbox[j].type # "task_complete")
              => \E k \in 1..Len(msgQueue') : msgQueue'[k] = outbox[j].id
     /\ Processed =>
          LET id == Head(msgQueue)
              msg == MessageById(outbox, id)
          IN /\ MessageById(outbox', id).status \in {"delivered", "responded", "rejected"}
             /\ (msg.to = "pm" /\ msg.type # "notification") =>
                  /\ Len(inbox') = Len(inbox) + 1
                  /\ inbox'[Len(inbox')].replyTo = id]_vars

(* ------------------ properties: a dispatch that fails ----------------- *)

\* A background dispatch of the task returns 1 in this step: its clone
\* failed or its agent type is unknown.
DispatchFails(t) ==
  /\ procs'[t].cloning = procs[t].cloning - 1
  /\ procs'[t].running = procs[t].running

\* C38: a dispatch that cannot start removes the task's in-progress marker
\* and writes no completed marker, and the task is classified ready again.
C38_FailedDispatchReady ==
  [][\A t \in Tasks :
       DispatchFails(t) =>
         /\ statusFile'[t] = "none"
         /\ completedFile'[t] = completedFile[t]
         /\ Classify(t)' = "ready"]_vars

(* ------------------- properties: project completion ------------------- *)

\* C39: the loop declares the project complete only in a state where every
\* task is marked completed after a merge and no task has an in-progress or
\* a completed-unreviewed marker: no task is then ready, blocked, running,
\* awaiting review, failed (tasks.json) or in needs_human_review (marker).
C39_CompleteOnlyWhenAllMerged ==
  [][(orch = "complete" /\ orch' = "done") =>
       \A t \in Tasks :
         /\ Merged(t)
         /\ statusFile[t] = "none"
         /\ ~completedFile[t]
         /\ Classify(t) \notin {"ready", "blocked", "running"}
         /\ ~Failed(t)
         /\ ~reviewFile[t]]_vars

====
